---- MODULE Spec2Model ----
(***************************************************************************)
(* Model of the scheme repository and dosing lookup of                     *)
(* src/fertilizers_v2.py: the module-level configuration globals, the      *)
(* configuration file, the scheme manager window, the fertilizer dialog    *)
(* and the lookup functions of the main window.                            *)
(*                                                                         *)
(* Floats are modelled by integers (a dose of 2 is 2.0 ml/l).  Python      *)
(* dicts are functions; the insertion order of ALL_SCHEMES is kept in      *)
(* schemeOrder because delete_selected_scheme reads list(keys())[0].       *)
(***************************************************************************)
EXTENDS Integers, Sequences, FiniteSets, TLC

\* ---------------------------------------------------------------- bounds
MaxSaves == 2            \* save attempts in one behaviour
MaxFailures == 1         \* of which fail
MaxLookupWeek == 4       \* weeks -1..MaxLookupWeek are looked up

\* ------------------------------------------------------------ input sets
\* Names the user types; the sequence gives Python's sorted() order.
NameOrder == <<"A", "B", "Default Scheme">>
FertOrder == <<"f", "g">>
SchemeNames == {NameOrder[i] : i \in 1..Len(NameOrder)}
FertNames == {FertOrder[i] : i \in 1..Len(FertOrder)}
NoName == ""             \* None / empty entry / cancelled askstring

IntRange == -1..12       \* integers whose decimal text the model can read
LookupWeeks == -1..MaxLookupWeek
WaterAmounts == {1, 2}

\* ------------------------------------------------------------ JSON values
Num(n) == [t |-> "num", n |-> n, s |-> ""]
Str(s) == [t |-> "str", n |-> 0, s |-> s]
Null == [t |-> "null", n |-> 0, s |-> ""]

ValueError == "ValueError"
TypeError == "TypeError"

\* str(k) of an int, as json.dump writes a dict key.
StrOfInt(k) == ToString(k)

\* int(s): the integer whose decimal text is s, ValueError otherwise.
IsIntStr(s) == \E k \in IntRange : ToString(k) = s
IntOfStr(s) == CHOOSE k \in IntRange : ToString(k) = s

\* float(s) of a string: the texts of IntRange parse, anything else raises.
IsFloatStr(s) == \E k \in IntRange : ToString(k) = s
FloatOfStr(s) == CHOOSE k \in IntRange : ToString(k) = s

\* float(v) of a decoded JSON value: number -> itself, numeric string ->
\* its value, other string -> ValueError, null -> TypeError.
FloatRaises(v) ==
    IF v.t = "num" THEN "no"
    ELSE IF v.t = "str" THEN (IF IsFloatStr(v.s) THEN "no" ELSE ValueError)
    ELSE TypeError
FloatOf(v) == IF v.t = "num" THEN v.n ELSE FloatOfStr(v.s)

Sorted(S, order) == SelectSeq(order, LAMBDA n : n \in S)
IndexOf(seq, x) == CHOOSE i \in 1..Len(seq) : seq[i] = x
Remove(seq, x) == SelectSeq(seq, LAMBDA n : n # x)
Put(f, k, v) == [j \in (DOMAIN f) \cup {k} |-> IF j = k THEN v ELSE f[j]]
Drop(f, k) == [j \in (DOMAIN f) \ {k} |-> f[j]]

\* ------------------------------------------------- dosing lookups (pure)
MaxKey(d) == CHOOSE m \in DOMAIN d : \A k \in DOMAIN d : k <= m
MinInt(a, b) == IF a < b THEN a ELSE b

NoneResult == [kind |-> "None", v |-> 0]
FloatResult(x) == [kind |-> "float", v |-> x]

\* Mutant: the week is used as it is, without saturation.
effective_week_unclamped(week, max_defined_week) == week

\* effective_week = min(week, max_defined_week) if week > 0 else 1
effective_week(week, max_defined_week) ==
    IF week > 0 THEN MinInt(week, max_defined_week) ELSE 1

\* Mutant: an empty schedule is reported like an unknown fertilizer.
EmptyScheduleResult_none == [kind |-> "None", v |-> 0]

\* What calculate_fertilizer_amount returns for an empty schedule.
EmptyScheduleResult == FloatResult(0)

\* calculate_fertilizer_amount(week, water_amount, fertilizer_type), with
\* the global F_DATA passed as fdata.
calculate_fertilizer_amount(fdata, week, water_amount, fertilizer_type) ==
    IF fertilizer_type \notin DOMAIN fdata THEN NoneResult
    ELSE LET schedule == fdata[fertilizer_type].schedule IN
         IF DOMAIN schedule = {} THEN EmptyScheduleResult
         ELSE LET ew == effective_week(week, MaxKey(schedule)) IN
              IF ew \notin DOMAIN schedule THEN FloatResult(0)
              ELSE FloatResult(schedule[ew] * water_amount)

\* get_ec_value(week), with the global EC_TARGET_VALUES passed as ecv.
get_ec_value(ecv, week) ==
    IF DOMAIN ecv = {} THEN NoneResult
    ELSE LET ew == effective_week(week, MaxKey(ecv)) IN
         IF ew \notin DOMAIN ecv THEN NoneResult ELSE FloatResult(ecv[ew])

\* ------------------------------------------------ inverse EC calculation
\* Floats are exact fractions [n, d] in lowest terms with d > 0.
RECURSIVE GCD(_, _)
GCD(a, b) == IF b = 0 THEN a ELSE GCD(b, a % b)
Abs(x) == IF x < 0 THEN -x ELSE x
Rat(n, d) ==
    LET g == GCD(Abs(n), Abs(d))
        sgn == IF d < 0 THEN -1 ELSE 1
    IN [n |-> sgn * (n \div g), d |-> sgn * (d \div g)]
Zero == Rat(0, 1)
RatLeq(a, b) == a.n * b.d <= b.n * a.d

\* Mutant: the plain formula, without the EC_ist >= EC_soll check and
\* without max(0.0, ...).
required_ml_unguarded(EC_ist, EC_soll, wassermenge_liter, ec_factor) ==
    IF ec_factor <= 0 THEN [v |-> Zero, divided |-> FALSE]
    ELSE [v |-> Rat((EC_soll - EC_ist) * wassermenge_liter, ec_factor),
          divided |-> TRUE]

\* Mutant: the water amount is left out of the product.
required_ml_without_water(EC_ist, EC_soll, wassermenge_liter, ec_factor) ==
    IF EC_ist >= EC_soll \/ ec_factor <= 0
    THEN [v |-> Zero, divided |-> FALSE]
    ELSE [v |-> Rat(EC_soll - EC_ist, ec_factor), divided |-> TRUE]

\* berechne_menge_fuer_ec_anpassung: v is the returned amount, divided says
\* whether the division by ec_factor was evaluated.
berechne_menge_fuer_ec_anpassung(EC_ist, EC_soll, wassermenge_liter, ec_factor) ==
    IF EC_ist >= EC_soll THEN [v |-> Zero, divided |-> FALSE]
    ELSE IF ec_factor <= 0 THEN [v |-> Zero, divided |-> FALSE]
    ELSE LET menge == Rat((EC_soll - EC_ist) * wassermenge_liter, ec_factor)
         IN [v |-> IF RatLeq(menge, Zero) THEN Zero ELSE menge,
             divided |-> TRUE]

\* float(text) of the entries of the EC helper.
HelperNumbers == {-1, 0, 2, 5, 400, 1000, 1200}
IsHelperFloat(s) == \E k \in HelperNumbers : ToString(k) = s
HelperFloat(s) == CHOOSE k \in HelperNumbers : ToString(k) = s

\* What the result label of the EC helper shows.
Eingabefehler(msg) ==
    [kind |-> "Eingabefehler", msg |-> msg, v |-> Zero, divided |-> FALSE,
     stamped |-> FALSE]
KeinDuenger ==
    [kind |-> "KeinDuenger", msg |-> "", v |-> Zero, divided |-> FALSE,
     stamped |-> FALSE]
Menge(r) ==
    [kind |-> "Menge", msg |-> "", v |-> r.v, divided |-> r.divided,
     stamped |-> TRUE]

\* The label "Plan-EC (Erde): ..." of the main window: "-" or a number.
NoPlanEc == "-"

\* The ValueError the entries raise in duenger_berechnen, "" for none.
\* manuell: the target is typed in (ec_soll_str is the entry) rather than
\* taken from the main window (ec_soll_str is the number in its label).
entry_error(ec_ist_str, wassermenge_str, manuell, ec_soll_str) ==
    IF ec_ist_str = "" THEN "ec_ist_missing"
    ELSE IF ~IsHelperFloat(ec_ist_str) THEN "ValueError"
    ELSE IF HelperFloat(ec_ist_str) < 0 THEN "ec_ist_negative"
    ELSE IF wassermenge_str = "" THEN "water_missing"
    ELSE IF ~IsHelperFloat(wassermenge_str) THEN "ValueError"
    ELSE IF HelperFloat(wassermenge_str) <= 0 THEN "water_not_positive"
    ELSE IF ~manuell /\ ec_soll_str = NoPlanEc THEN "ec_soll_unavailable"
    ELSE IF manuell /\ ec_soll_str = "" THEN "ec_soll_missing"
    ELSE IF ~IsHelperFloat(ec_soll_str) THEN "ValueError"
    ELSE IF manuell /\ HelperFloat(ec_soll_str) <= 0
    THEN "ec_soll_not_positive"
    ELSE ""

\* Mutant: the EC factor is passed on without being checked.
duenger_berechnen_unchecked_factor(fdata, ec_ist_str, wassermenge_str, manuell, ec_soll_str, selected_fertilizer_name) ==
    LET err == entry_error(ec_ist_str, wassermenge_str, manuell, ec_soll_str)
    IN
    IF err # "" THEN Eingabefehler(err)
    ELSE IF HelperFloat(ec_ist_str) >= HelperFloat(ec_soll_str)
    THEN KeinDuenger
    ELSE IF selected_fertilizer_name = NoName
    THEN Eingabefehler("no_fertilizer")
    ELSE IF selected_fertilizer_name \notin DOMAIN fdata
    THEN Eingabefehler("factor_not_found")
    ELSE Menge(berechne_menge_fuer_ec_anpassung(
                   HelperFloat(ec_ist_str), HelperFloat(ec_soll_str),
                   HelperFloat(wassermenge_str),
                   fdata[selected_fertilizer_name].ec_contribution_factor))

\* ec_berechnen.duenger_berechnen: the "Berechnen" button of the EC helper.
duenger_berechnen(fdata, ec_ist_str, wassermenge_str, manuell, ec_soll_str, selected_fertilizer_name) ==
    LET err == entry_error(ec_ist_str, wassermenge_str, manuell, ec_soll_str)
    IN
    IF err # "" THEN Eingabefehler(err)
    ELSE IF HelperFloat(ec_ist_str) >= HelperFloat(ec_soll_str)
    THEN KeinDuenger
    ELSE IF selected_fertilizer_name = NoName
    THEN Eingabefehler("no_fertilizer")
    ELSE IF selected_fertilizer_name \notin DOMAIN fdata
    THEN Eingabefehler("factor_not_found")
    ELSE LET ec_factor ==
                 fdata[selected_fertilizer_name].ec_contribution_factor IN
         IF ec_factor <= 0 THEN Eingabefehler("InvalidEcFactor")
         ELSE Menge(berechne_menge_fuer_ec_anpassung(
                        HelperFloat(ec_ist_str), HelperFloat(ec_soll_str),
                        HelperFloat(wassermenge_str), ec_factor))

\* --------------------------------------------------- configuration file
PartialFile ==
    [kind |-> "partial", active |-> NoName, order |-> <<>>,
     schemes |-> <<>>, defaults |-> <<>>, hasDefaults |-> FALSE]

\* json.dump of a dict with int keys: keys become their decimal text.
EncodeSchedule(sched) ==
    [k \in {StrOfInt(w) : w \in DOMAIN sched} |->
        Num(sched[CHOOSE w \in DOMAIN sched : StrOfInt(w) = k])]

EncodeScheme(c) ==
    [fertilizer_data |->
        [fn \in DOMAIN c.fertilizer_data |->
            [schedule |-> EncodeSchedule(c.fertilizer_data[fn].schedule),
             ec_contribution_factor |->
                 Num(c.fertilizer_data[fn].ec_contribution_factor)]],
     ec_values |-> EncodeSchedule(c.ec_values)]

\* The text json.dump(config_to_save, f, indent=2) writes when it completes.
EncodeConfig(schemes, order, active, defaults) ==
    [kind |-> "json", active |-> active, order |-> order,
     schemes |-> [n \in DOMAIN schemes |-> EncodeScheme(schemes[n])],
     defaults |-> [k \in DOMAIN defaults |-> Num(defaults[k])],
     hasDefaults |-> TRUE]

\* Outcomes of save_config_to_json: the dump completes; open() raises and
\* the file is untouched; open(..., 'w') has truncated the file and the
\* dump raises part-way.
SaveOutcomes == {"ok", "open_failed", "write_failed"}

\* The file after save_config_to_json with the given outcome.
save_config_to_json(outcome, old, schemes, order, active, defaults) ==
    IF outcome = "ok" THEN EncodeConfig(schemes, order, active, defaults)
    ELSE IF outcome = "open_failed" THEN old
    ELSE PartialFile

\* for week_str, dosage in schedule_json.items():
\*     try: processed[int(week_str)] = float(dosage)  except ValueError: skip
\* float() is evaluated first; a TypeError is not caught here.
ScheduleAborts(sj) == \E k \in DOMAIN sj : FloatRaises(sj[k]) = TypeError
KeptKeys(sj) == {k \in DOMAIN sj : FloatRaises(sj[k]) = "no" /\ IsIntStr(k)}
ProcessSchedule(sj) ==
    [w \in {IntOfStr(k) : k \in KeptKeys(sj)} |->
        FloatOf(sj[CHOOSE k \in KeptKeys(sj) : IntOfStr(k) = w])]

\* Mutant: only factors written as text are converted.
ProcessEcFactor_text_only(v) ==
    IF v.t = "str" /\ IsFloatStr(v.s) THEN FloatOfStr(v.s) ELSE 0

ProcessEcFactor(v) ==
    IF v.t = "null" THEN 0
    ELSE IF FloatRaises(v) = "no" THEN FloatOf(v) ELSE 0

ProcessScheme(c) ==
    [fertilizer_data |->
        [fn \in DOMAIN c.fertilizer_data |->
            [schedule |-> ProcessSchedule(c.fertilizer_data[fn].schedule),
             ec_contribution_factor |->
                 ProcessEcFactor(c.fertilizer_data[fn].ec_contribution_factor)]],
     ec_values |-> ProcessSchedule(c.ec_values)]

SchemeAborts(c) ==
    \/ ScheduleAborts(c.ec_values)
    \/ \E fn \in DOMAIN c.fertilizer_data :
          ScheduleAborts(c.fertilizer_data[fn].schedule)

LoadFailed ==
    [ok |-> FALSE, schemes |-> <<>>, order |-> <<>>, active |-> NoName,
     defaults |-> <<>>]

\* load_fertilizer_config(): (None, None, None) is LoadFailed.
load_fertilizer_config(f) ==
    IF f.kind # "json" THEN LoadFailed
    ELSE IF f.active = NoName \/ DOMAIN f.schemes = {} \/ ~f.hasDefaults
         THEN LoadFailed
    ELSE IF \E n \in DOMAIN f.schemes : SchemeAborts(f.schemes[n])
         THEN LoadFailed
    ELSE IF \E k \in DOMAIN f.defaults : FloatRaises(f.defaults[k]) # "no"
         THEN LoadFailed
    ELSE [ok |-> TRUE,
          schemes |-> [n \in DOMAIN f.schemes |-> ProcessScheme(f.schemes[n])],
          order |-> f.order,
          active |-> f.active,
          defaults |-> [k \in DOMAIN f.defaults |-> FloatOf(f.defaults[k])]]

\* ------------------------------------------ schedule text of the dialog
\* A schedule text is the sequence of its comma-separated parts, each part
\* the sequence of its colon-separated fields: "1:2, 3" is
\* <<<<"1","2">>, <<"3">>>>; an empty part is <<"">>.
ParseFailed == [ok |-> FALSE, sched |-> <<>>]

RECURSIVE ParseParts(_, _)
ParseParts(parts, acc) ==
    IF parts = <<>> THEN [ok |-> TRUE, sched |-> acc]
    ELSE LET part == Head(parts) IN
         IF part = <<"">> THEN ParseParts(Tail(parts), acc)
         ELSE IF Len(part) # 2 THEN ParseFailed
         ELSE IF ~IsIntStr(part[1]) \/ ~IsFloatStr(part[2]) THEN ParseFailed
         ELSE IF IntOfStr(part[1]) <= 0 THEN ParseFailed
         ELSE ParseParts(Tail(parts),
                         Put(acc, IntOfStr(part[1]), FloatOfStr(part[2])))

parse_schedule_string_skipping(text) ==
    ParseParts(SelectSeq(text, LAMBDA part :
                   \/ part = <<"">>
                   \/ /\ Len(part) = 2
                      /\ IsIntStr(part[1]) /\ IsFloatStr(part[2])
                      /\ IntOfStr(part[1]) > 0), <<>>)

\* parse_schedule_string(schedule_str); None is ParseFailed.
parse_schedule_string(text) == ParseParts(text, <<>>)

EmptyText == <<<<"">>>>
FullText == <<<<"1", "2">>, <<"2", "2">>, <<"3", "4">>>>
FullSchedule == (1 :> 2 @@ 2 :> 2 @@ 3 :> 4)
GoodTexts ==
    { EmptyText,
      FullText,
      <<<<"2", "1">>, <<"">>>> }
BadTexts ==
    { <<<<"1", "2">>, <<"0", "1">>>>,
      <<<<"1", "2">>, <<"3">>>>,
      <<<<"1", "x">>>> }

\* What the user enters in the dialog: name, EC factor text, schedule text.
DialogInputs ==
    {<<"f", "5", t>> : t \in GoodTexts}
    \cup {<<"g", "5", FullText>>}
    \cup {<<"f", "5", t>> : t \in BadTexts}
    \cup {<<NoName, "5", EmptyText>>, <<"f", "abc", EmptyText>>}

\* ------------------------------------------------ plant file (pure)
\* A date is <<day, month, year>>.  datetime.strptime(text, '%d.%m.%Y')
\* reads day and month with or without a leading zero and a year of exactly
\* four digits; strftime('%d.%m.%Y') writes day and month with two digits
\* and the year as the C library writes %Y: four digits, or no leading
\* zeros (glibc) - pad_year tells which.
PlantDates == {<<1, 2, 2024>>, <<15, 11, 2023>>, <<1, 1, 999>>}
Pad2(n) == IF n < 10 THEN "0" \o ToString(n) ELSE ToString(n)
Pad4(n) ==
    IF n < 10 THEN "000" \o ToString(n)
    ELSE IF n < 100 THEN "00" \o ToString(n)
    ELSE IF n < 1000 THEN "0" \o ToString(n)
    ELSE ToString(n)
Spellings(date) ==
    {dd \o "." \o mm \o "." \o Pad4(date[3]) :
        dd \in {ToString(date[1]), Pad2(date[1])},
        mm \in {ToString(date[2]), Pad2(date[2])}}
IsDateText(text) == \E date \in PlantDates : text \in Spellings(date)
strptime(text) == CHOOSE date \in PlantDates : text \in Spellings(date)
strftime_month_first(date, pad_year) ==
    Pad2(date[2]) \o "." \o Pad2(date[1]) \o "."
        \o (IF pad_year THEN Pad4(date[3]) ELSE ToString(date[3]))

strftime(date, pad_year) ==
    Pad2(date[1]) \o "." \o Pad2(date[2]) \o "."
        \o (IF pad_year THEN Pad4(date[3]) ELSE ToString(date[3]))

CSV_HEADER == <<"Pflanzenname", "Keimdatum", "Genetik", "Infos">>

\* pflanzendaten.csv: whether it exists, and its rows (the header first),
\* each row the sequence of its fields.
Csv(rows) == [exists |-> TRUE, rows |-> rows]

\* plant_data is a dict; the model keeps it as the sequence of its items in
\* insertion order, each item the name with the three fields.
PlantNames(data) == {data[i].name : i \in 1..Len(data)}
PlantItem(row) ==
    [name |-> row[1], Keimdatum |-> strptime(row[2]), Genetik |-> row[3],
     Infos |-> row[4]]

RowIsRead_last_wins(data, row) ==
    Len(row) = Len(CSV_HEADER) /\ IsDateText(row[2])

\* The row gives a record: it has as many fields as CSV_HEADER, its date
\* parses, and no earlier row gave a record of that name.
RowIsRead(data, row) ==
    /\ Len(row) = Len(CSV_HEADER)
    /\ IsDateText(row[2])
    /\ row[1] \notin PlantNames(data)

\* plant_data[plant_name] = {...}: a new key goes to the end, an existing
\* key keeps its place.
SetPlant(data, item) ==
    IF item.name \in PlantNames(data)
    THEN [i \in 1..Len(data) |->
             IF data[i].name = item.name THEN item ELSE data[i]]
    ELSE Append(data, item)

RECURSIVE ReadRows(_, _)
ReadRows(rows, data) ==
    IF rows = <<>> THEN data
    ELSE ReadRows(Tail(rows),
                  IF RowIsRead(data, Head(rows))
                  THEN SetPlant(data, PlantItem(Head(rows))) ELSE data)

\* read_plant_data(): the dict read and the file afterwards (a missing file
\* is created with the header).  The header row is read and not used.
read_plant_data(f) ==
    IF ~f.exists THEN [plant_data |-> <<>>, csvfile |-> Csv(<<CSV_HEADER>>)]
    ELSE IF f.rows = <<>> THEN [plant_data |-> <<>>, csvfile |-> f]
    ELSE [plant_data |-> ReadRows(Tail(f.rows), <<>>), csvfile |-> f]

CsvRow(item, pad_year) ==
    <<item.name, strftime(item.Keimdatum, pad_year), item.Genetik,
      item.Infos>>

\* save_plant_data_to_csv(data_to_save) when the file can be opened; an
\* IOError of open() leaves the file as it was.
save_plant_data_to_csv(data_to_save, outcome, pad_year, old) ==
    IF outcome = "IOError" THEN old
    ELSE Csv(<<CSV_HEADER>> \o [i \in 1..Len(data_to_save) |->
                                   CsvRow(data_to_save[i], pad_year)])

\* ------------------------------------------------------------------ state
VARIABLES
    phase,              \* "start", "running" (mainloop) or "exited"
    ui,                 \* "main", "manager" or "dialog": the modal window
    ALL_SCHEMES,        \* scheme name -> [fertilizer_data, ec_values]
    schemeOrder,        \* insertion order of the keys of ALL_SCHEMES
    ACTIVE_SCHEME_NAME,
    DEFAULT_EC_FACTORS,
    F_DATA,             \* reference held by the main window, see Alias
    EC_TARGET_VALUES,
    file,               \* content of fertilizer_config.json
    scheme_listbox,     \* items of the scheme listbox
    sel,                \* selected index of scheme_listbox, 0 for none
    fertilizer_listbox, \* fertilizer names shown for the selected scheme
    dlg,                \* the open fertilizer dialog
    saves,              \* save attempts so far
    failures,           \* failed save attempts so far
    shared,             \* pairs of scheme names bound to one dict object
    last,               \* the operation whose message box is up, and how
                        \* it ended; NoLast once the box is acknowledged
    ec,                 \* the last EC calculation: its inputs and outcome
    csvfile,            \* content of pflanzendaten.csv
    plant_data,         \* the plants read, see PlantItem
    gui                 \* plant and dose widgets of the main window

vars == <<phase, ui, ALL_SCHEMES, schemeOrder, ACTIVE_SCHEME_NAME,
          DEFAULT_EC_FACTORS, F_DATA, EC_TARGET_VALUES, file,
          scheme_listbox, sel, fertilizer_listbox, dlg, saves,
          failures, shared, last, ec, csvfile, plant_data, gui>>

plantVars == <<csvfile, plant_data, gui>>

\* F_DATA is a reference to a dict.  Alias(n): it is the dict object that
\* ALL_SCHEMES[n]["fertilizer_data"] holds, so in-place changes show through
\* it.  Detached(v): it is a dict no scheme holds any more, with content v.
\* The "ec_values" dicts are never changed in place, so EC_TARGET_VALUES is
\* modelled by its content.
Alias(n) == [alias |-> n, val |-> <<>>]
Detached(v) == [alias |-> NoName, val |-> v]
Deref(fd, schemes) ==
    IF fd.alias # NoName THEN schemes[fd.alias].fertilizer_data ELSE fd.val

NoDialog == [scheme |-> NoName, orig |-> NoName, edit |-> FALSE]
EmptyScheme == [fertilizer_data |-> <<>>, ec_values |-> <<>>]

\* The state the handlers work on, as one record.
Cur ==
    [schemes |-> ALL_SCHEMES, order |-> schemeOrder,
     active |-> ACTIVE_SCHEME_NAME, fdata |-> F_DATA,
     ec |-> EC_TARGET_VALUES, file |-> file, lb |-> scheme_listbox,
     sel |-> sel, flb |-> fertilizer_listbox, ui |-> ui, dlg |-> dlg,
     shared |-> shared, result |-> "", target |-> NoName]

Res(st, result, target) == [st EXCEPT !.result = result, !.target = target]

Saved(st, outcome) ==
    [st EXCEPT !.file = save_config_to_json(outcome, st.file, st.schemes,
                            st.order, st.active, DEFAULT_EC_FACTORS)]

\* populate_fertilizer_listbox for the selection of the scheme listbox
\* (refresh_fertilizer_list_for_selected_scheme / on_scheme_select).
refresh_fertilizer_list_for_selected_scheme(st) ==
    [st EXCEPT !.flb =
        IF st.sel # 0 /\ st.lb[st.sel] \in DOMAIN st.schemes
        THEN Sorted(DOMAIN st.schemes[st.lb[st.sel]].fertilizer_data, FertOrder)
        ELSE <<>>]

\* Mutant: the listbox keeps the names it had.
populate_scheme_listbox_stale(st) ==
    refresh_fertilizer_list_for_selected_scheme(st)

\* populate_scheme_listbox: the sorted keys; the selection is restored by
\* index (an index past the end selects nothing), and with no previous
\* selection the active scheme is selected.
populate_scheme_listbox(st) ==
    LET lb == Sorted(DOMAIN st.schemes, NameOrder)
        s == IF st.sel # 0 THEN (IF st.sel <= Len(lb) THEN st.sel ELSE 0)
             ELSE IF st.active \in DOMAIN st.schemes
                  THEN IndexOf(lb, st.active) ELSE 0
    IN refresh_fertilizer_list_for_selected_scheme(
           [st EXCEPT !.lb = lb, !.sel = s])

\* update_main_ui_for_active_scheme: rebinds F_DATA and EC_TARGET_VALUES.
update_main_ui_for_active_scheme(st) ==
    IF st.active \notin DOMAIN st.schemes THEN st
    ELSE [st EXCEPT !.fdata = Alias(st.active),
                    !.ec = st.schemes[st.active].ec_values]

\* ------------------------------------------------ scheme manager handlers
\* Two keys of ALL_SCHEMES are bound to the same scheme dict when the pair
\* is in shared; a change made in place through one key shows under both.
SharesWith(sh, n) == {m \in SchemeNames : {n, m} \in sh /\ m # n}
Unshare(sh, n) == {pr \in sh : n \notin pr}
Rebind(sh, from, to) ==
    Unshare(sh, from) \cup {{to, m} : m \in SharesWith(sh, from)}

\* Mutant: the new key is bound to the template's own dict.
deepcopy_by_reference(sh, source, new_scheme_name) ==
    sh \cup {{source, new_scheme_name}}
       \cup {{m, new_scheme_name} : m \in SharesWith(sh, source)}

\* ALL_SCHEMES[new] = copy.deepcopy(ALL_SCHEMES[source]): the new key is
\* bound to a new object that shares nothing.
deepcopy(sh, source, new_scheme_name) == sh

\* set_active_scheme: a failed save returns without touching anything more.
set_active_scheme(st, outcome) ==
    IF st.sel = 0 THEN Res(st, "no_selection", NoName)
    ELSE LET name == st.lb[st.sel] IN
         IF name = st.active THEN Res(st, "already_active", name)
         ELSE LET s1 == Saved([st EXCEPT !.active = name], outcome) IN
              IF outcome = "ok"
              THEN Res(populate_scheme_listbox(
                           update_main_ui_for_active_scheme(s1)), "ok", name)
              ELSE Res(s1, "persist_fail", name)

\* else: del ALL_SCHEMES[new_scheme_name]
create_rollback(st, new_scheme_name) ==
    [st EXCEPT !.schemes = Drop(st.schemes, new_scheme_name),
               !.order = Remove(st.order, new_scheme_name),
               !.shared = Unshare(st.shared, new_scheme_name)]

\* Mutant: with nothing selected the active scheme is the template.
source_scheme_name_or_active(st) ==
    IF st.sel # 0 THEN st.lb[st.sel] ELSE st.active

\* source_scheme_name of create_new_scheme, None is NoName.
source_scheme_name(st) ==
    IF st.sel # 0 THEN st.lb[st.sel]
    ELSE IF "Default Scheme" \in DOMAIN st.schemes
         THEN "Default Scheme" ELSE NoName

\* create_new_scheme: the template is the selected scheme, else
\* "Default Scheme" when it exists, else none; copy.deepcopy copies content.
create_new_scheme(st, new_scheme_name, outcome) ==
    IF new_scheme_name = NoName THEN Res(st, "cancelled", NoName)
    ELSE IF new_scheme_name \in DOMAIN st.schemes
         THEN Res(st, "DuplicateName", new_scheme_name)
    ELSE LET source == source_scheme_name(st)
             copied == source # NoName /\ source \in DOMAIN st.schemes
             content == IF copied THEN st.schemes[source] ELSE EmptyScheme
             s1 == Saved([st EXCEPT
                            !.schemes = Put(st.schemes, new_scheme_name, content),
                            !.order = Append(st.order, new_scheme_name),
                            !.shared = IF copied
                                       THEN deepcopy(st.shared, source,
                                                     new_scheme_name)
                                       ELSE st.shared],
                         outcome)
         IN IF outcome = "ok"
            THEN Res(populate_scheme_listbox(s1), "ok", new_scheme_name)
            ELSE Res(create_rollback(s1, new_scheme_name),
                     "persist_fail", new_scheme_name)

\* Mutant: the guard only stops a delete from an empty repository.
is_last_scheme_off_by_one(schemes) == Cardinality(DOMAIN schemes) < 1

\* if len(ALL_SCHEMES) <= 1: "Letztes Schema kann nicht gelöscht werden."
is_last_scheme(schemes) == Cardinality(DOMAIN schemes) <= 1

\* Mutant: the active name is left pointing at the deleted scheme.
replacement_active_stale(order, scheme_to_delete) == scheme_to_delete

\* ACTIVE_SCHEME_NAME = list(ALL_SCHEMES.keys())[0], after the del.
replacement_active(order, scheme_to_delete) == order[1]

\* Mutant: the rollback restores the scheme but not the active name.
delete_rollback_keeps_active(st, scheme_to_delete, backup, active_backup) ==
    [st EXCEPT !.schemes = Put(st.schemes, scheme_to_delete, backup),
               !.order = Append(st.order, scheme_to_delete)]

\* Rollback of delete_selected_scheme: the backup copy is stored again
\* (a new dict, at the end of the key order) and the active name restored.
delete_rollback(st, scheme_to_delete, backup, active_backup) ==
    [st EXCEPT !.schemes = Put(st.schemes, scheme_to_delete, backup),
               !.order = Append(st.order, scheme_to_delete),
               !.active = active_backup]

delete_selected_scheme(st, confirmed, outcome) ==
    IF st.sel = 0 THEN Res(st, "cancelled", NoName)
    ELSE LET scheme_to_delete == st.lb[st.sel] IN
         IF is_last_scheme(st.schemes)
         THEN Res(st, "LastSchemeError", scheme_to_delete)
         ELSE IF ~confirmed THEN Res(st, "cancelled", scheme_to_delete)
         ELSE IF scheme_to_delete \notin DOMAIN st.schemes
         THEN Res(st, "KeyError", scheme_to_delete)
         ELSE
         LET backup == st.schemes[scheme_to_delete]
             active_backup == st.active
             order1 == Remove(st.order, scheme_to_delete)
             active_scheme_changed == scheme_to_delete = st.active
         IN
         IF active_scheme_changed /\ order1 = <<>>
         THEN \* list(ALL_SCHEMES.keys())[0] raises IndexError after the del
              Res([st EXCEPT !.schemes = Drop(st.schemes, scheme_to_delete),
                             !.order = order1,
                             !.shared = Unshare(st.shared, scheme_to_delete),
                             !.fdata = IF st.fdata.alias = scheme_to_delete
                                       THEN Detached(backup.fertilizer_data)
                                       ELSE st.fdata],
                  "IndexError", scheme_to_delete)
         ELSE
         LET s1 == Saved([st EXCEPT
                     !.schemes = Drop(st.schemes, scheme_to_delete),
                     !.order = order1,
                     !.shared = Unshare(st.shared, scheme_to_delete),
                     !.fdata = IF st.fdata.alias = scheme_to_delete
                               THEN Detached(backup.fertilizer_data)
                               ELSE st.fdata,
                     !.active = IF active_scheme_changed
                                THEN replacement_active(order1, scheme_to_delete)
                                ELSE st.active],
                   outcome)
         IN IF outcome = "ok"
            THEN Res(IF active_scheme_changed
                     THEN update_main_ui_for_active_scheme(
                              populate_scheme_listbox(s1))
                     ELSE populate_scheme_listbox(s1),
                     "ok", scheme_to_delete)
            ELSE Res(populate_scheme_listbox(
                         delete_rollback(s1, scheme_to_delete, backup,
                                         active_backup)),
                     "persist_fail", scheme_to_delete)

\* Mutant: the scheme is stored under the new key and the old key stays.
move_scheme_keeps_old_key(st, from, to) ==
    [st EXCEPT !.schemes = Put(st.schemes, to, st.schemes[from]),
               !.order = Append(Remove(st.order, to), to),
               !.shared = st.shared \cup {{from, to}},
               !.fdata = IF st.fdata.alias = from THEN Alias(to)
                         ELSE st.fdata]

\* ALL_SCHEMES[to] = ALL_SCHEMES.pop(from): the same scheme object under a
\* new key, at the end of the key order; a reference to its dict follows.
move_scheme(st, from, to) ==
    [st EXCEPT !.schemes = Put(Drop(st.schemes, from), to, st.schemes[from]),
               !.order = Append(Remove(st.order, from), to),
               !.shared = Rebind(st.shared, from, to),
               !.fdata = IF st.fdata.alias = from THEN Alias(to)
                         ELSE st.fdata]

\* Rollback of rename_selected_scheme.
rename_rollback(st, old_name, new_name, active_renamed) ==
    LET s1 == move_scheme(st, new_name, old_name) IN
    IF active_renamed THEN [s1 EXCEPT !.active = old_name] ELSE s1

rename_selected_scheme(st, new_name, outcome) ==
    IF st.sel = 0 THEN Res(st, "cancelled", NoName)
    ELSE LET old_name == st.lb[st.sel] IN
         IF new_name = NoName \/ new_name = old_name
         THEN Res(st, "cancelled", old_name)
         ELSE IF new_name \in DOMAIN st.schemes
         THEN Res(st, "DuplicateName", old_name)
         ELSE IF old_name \notin DOMAIN st.schemes
         THEN Res(st, "KeyError", old_name)
         ELSE
         LET active_renamed == old_name = st.active
             s0 == move_scheme(st, old_name, new_name)
             s1 == Saved(IF active_renamed
                         THEN [s0 EXCEPT !.active = new_name] ELSE s0,
                         outcome)
         IN IF outcome = "ok"
            THEN Res(IF active_renamed
                     THEN update_main_ui_for_active_scheme(
                              populate_scheme_listbox(s1))
                     ELSE populate_scheme_listbox(s1),
                     "ok", old_name)
            ELSE Res(populate_scheme_listbox(
                         rename_rollback(s1, old_name, new_name,
                                         active_renamed)),
                     "persist_fail", old_name)

\* -------------------------------------------------- fertilizer handlers
\* The fertilizer dict of a scheme and a change of it made in place.
FertData(st, scheme) == st.schemes[scheme].fertilizer_data
\* Mutant: the change is made in the fertilizer dict of every scheme.
SetFertData_in_every_scheme(st, scheme, fd) ==
    [st EXCEPT !.schemes =
        [n \in DOMAIN st.schemes |->
            [st.schemes[n] EXCEPT !.fertilizer_data = fd]]]

SetFertData(st, scheme, fd) ==
    [st EXCEPT !.schemes =
        [n \in DOMAIN st.schemes |->
            IF n = scheme \/ n \in SharesWith(st.shared, scheme)
            THEN [st.schemes[n] EXCEPT !.fertilizer_data = fd]
            ELSE st.schemes[n]]]

call_add_fertilizer_dialog(st) ==
    IF st.sel = 0 THEN Res(st, "no_selection", NoName)
    ELSE Res([st EXCEPT !.ui = "dialog",
                        !.dlg = [scheme |-> st.lb[st.sel], orig |-> NoName,
                                 edit |-> FALSE]],
             "opened", st.lb[st.sel])

\* fsel: the selected index of the fertilizer listbox, 0 for none.
call_edit_fertilizer_dialog(st, fsel) ==
    IF st.sel = 0 THEN Res(st, "no_selection", NoName)
    ELSE LET current_scheme_name == st.lb[st.sel] IN
         IF fsel = 0 THEN Res(st, "no_fertilizer_selection", current_scheme_name)
         ELSE LET actual_fertilizer_name == st.flb[fsel] IN
              IF \/ current_scheme_name \notin DOMAIN st.schemes
                 \/ actual_fertilizer_name \notin
                        DOMAIN FertData(st, current_scheme_name)
              THEN Res(refresh_fertilizer_list_for_selected_scheme(st),
                       "NotFound", current_scheme_name)
              ELSE Res([st EXCEPT !.ui = "dialog",
                           !.dlg = [scheme |-> current_scheme_name,
                                    orig |-> actual_fertilizer_name,
                                    edit |-> TRUE]],
                       "opened", current_scheme_name)

name_collides_with_itself(fertilizer_data, new_name, original_name_for_edit) ==
    new_name \in DOMAIN fertilizer_data

\* The duplicate check of on_save: the name typed is a key of the scheme's
\* fertilizer_data and is not the name the dialog was opened for.
name_collides(fertilizer_data, new_name, original_name_for_edit) ==
    new_name # original_name_for_edit /\ new_name \in DOMAIN fertilizer_data

\* on_save of the fertilizer dialog.  The del of a missing original name
\* raises KeyError, which ends the callback before anything is changed.
on_save(st, new_name, ec_factor_str, schedule_str, outcome) ==
    LET scheme == st.dlg.scheme
        orig == st.dlg.orig
        parsed == parse_schedule_string(schedule_str)
    IN
    IF new_name = NoName THEN Res(st, "empty_name", scheme)
    ELSE IF ~IsFloatStr(ec_factor_str) THEN Res(st, "bad_ec_factor", scheme)
    ELSE IF ~parsed.ok THEN Res(st, "MalformedScheduleText", scheme)
    ELSE IF name_collides(FertData(st, scheme), new_name, orig)
         THEN Res(st, "DuplicateName", scheme)
    ELSE LET renaming == st.dlg.edit /\ orig # NoName /\ orig # new_name IN
         IF renaming /\ orig \notin DOMAIN FertData(st, scheme)
         THEN Res(st, "KeyError", scheme)
         ELSE
         LET fd0 == FertData(st, scheme)
             fd1 == IF renaming THEN Drop(fd0, orig) ELSE fd0
             fd2 == Put(fd1, new_name,
                        [schedule |-> parsed.sched,
                         ec_contribution_factor |-> FloatOfStr(ec_factor_str)])
             s1 == Saved(SetFertData(st, scheme, fd2), outcome)
         IN IF outcome = "ok"
            THEN LET s2 == refresh_fertilizer_list_for_selected_scheme(s1)
                     s3 == IF s2.active = scheme
                           THEN update_main_ui_for_active_scheme(s2) ELSE s2
                 IN Res([s3 EXCEPT !.ui = "manager", !.dlg = NoDialog],
                        "ok", scheme)
            ELSE Res(s1, "persist_fail", scheme)   \* else: pass

\* Rollback of delete_selected_fertilizer: the scheme gets the backup copy
\* as a new dict; a reference to the old dict keeps the old dict.
delete_fertilizer_rollback(st, scheme, backup) ==
    [SetFertData(st, scheme, backup) EXCEPT
        !.fdata = IF st.fdata.alias = scheme
                  THEN Detached(FertData(st, scheme)) ELSE st.fdata]

delete_selected_fertilizer(st, fsel, confirmed, outcome) ==
    IF st.sel = 0 THEN Res(st, "no_selection", NoName)
    ELSE LET current_scheme_name == st.lb[st.sel] IN
         IF fsel = 0 THEN Res(st, "no_fertilizer_selection", current_scheme_name)
         ELSE LET actual_fertilizer_name == st.flb[fsel] IN
              IF ~confirmed THEN Res(st, "cancelled", current_scheme_name)
              ELSE IF \/ current_scheme_name \notin DOMAIN st.schemes
                      \/ actual_fertilizer_name \notin
                             DOMAIN FertData(st, current_scheme_name)
              THEN Res(refresh_fertilizer_list_for_selected_scheme(st),
                       "NotFound", current_scheme_name)
              ELSE
              LET backup == FertData(st, current_scheme_name)
                  s1 == Saved(SetFertData(st, current_scheme_name,
                                  Drop(backup, actual_fertilizer_name)),
                              outcome)
              IN IF outcome = "ok"
                 THEN LET s2 == refresh_fertilizer_list_for_selected_scheme(s1)
                      IN Res(IF s2.active = current_scheme_name
                             THEN update_main_ui_for_active_scheme(s2)
                             ELSE s2,
                             "ok", current_scheme_name)
                 ELSE Res(refresh_fertilizer_list_for_selected_scheme(
                              delete_fertilizer_rollback(s1,
                                  current_scheme_name, backup)),
                          "persist_fail", current_scheme_name)

\* ---------------------------------------------------------- start-up
DefaultsJson == ("bloom" :> Num(5) @@ "growth" :> Num(3))
GoodScheduleJson == ("1" :> Num(2) @@ "2" :> Num(2) @@ "3" :> Num(4))
CurveJson == ("1" :> Num(1) @@ "2" :> Num(2))

JsonFile(active, order, schemes, hasDefaults) ==
    [kind |-> "json", active |-> active, order |-> order,
     schemes |-> schemes, defaults |-> DefaultsJson,
     hasDefaults |-> hasDefaults]

SchemeJson(fertilizers, curve) ==
    [fertilizer_data |-> fertilizers, ec_values |-> curve]
FertJson(schedule, factor) ==
    [schedule |-> schedule, ec_contribution_factor |-> factor]

SchemeAJson == SchemeJson("f" :> FertJson(GoodScheduleJson, Num(5)), CurveJson)

\* Contents fertilizer_config.json can have when the application starts.
InitFiles ==
    { \* two schemes, the active one empty and first in the file
      JsonFile("B", <<"B", "A">>,
               "A" :> SchemeAJson @@ "B" :> SchemeJson(<<>>, <<>>), TRUE),
      \* entries that do not parse, week keys below 1, missing factor
      JsonFile("A", <<"A">>,
               "A" :> SchemeJson(
                   "f" :> FertJson("x" :> Num(1) @@ "1" :> Str("abc")
                                   @@ "2" :> Str("3"), Str("abc"))
                   @@ "g" :> FertJson("-1" :> Num(1) @@ "2" :> Num(3), Null),
                   "0" :> Num(5)), TRUE),
      \* active scheme that is not a scheme
      JsonFile("B", <<"A">>, "A" :> SchemeAJson, TRUE),
      \* a null dosage
      JsonFile("A", <<"A">>,
               "A" :> SchemeJson("f" :> FertJson("1" :> Null, Num(5)),
                                 CurveJson), TRUE),
      \* default_ec_factors missing
      JsonFile("A", <<"A">>, "A" :> SchemeAJson, FALSE),
      \* not a JSON document
      PartialFile }

\* The plant and dose widgets as the main window builds them: no plant
\* chosen, 1 litre of water, one unchecked checkbox and one empty result
\* label for every key of F_DATA.  calls: the calls of
\* calculate_fertilizer_amount the last handler made.
EmptyLabel == [kind |-> "", v |-> 0]
NoGui ==
    [plant_var |-> NoName, today |-> <<1, 1, 2024>>, week_entry |-> "",
     water_amount_entry |-> "1", fertilizer_options |-> <<>>,
     fertilizer_vars |-> <<>>, result_labels |-> <<>>, ec_label |-> "-",
     calls |-> {}]

\* before: ACTIVE_SCHEME_NAME when the operation started.
NoLast == [op |-> "none", result |-> "", target |-> NoName, before |-> NoName]

\* No EC calculation has been made.
NoEc ==
    [call |-> "none", ist |-> 0, soll |-> 0, water |-> 0, factor |-> 0,
     ist_str |-> "", water_str |-> "", manuell |-> FALSE, soll_str |-> "",
     fert |-> NoName,
     out |-> [kind |-> "", msg |-> "", v |-> Zero, divided |-> FALSE,
              stamped |-> FALSE]]

Init ==
    /\ phase = "start"
    /\ ui = "main"
    /\ ALL_SCHEMES = <<>>
    /\ schemeOrder = <<>>
    /\ ACTIVE_SCHEME_NAME = NoName
    /\ DEFAULT_EC_FACTORS = <<>>
    /\ F_DATA = Detached(<<>>)
    /\ EC_TARGET_VALUES = <<>>
    /\ file \in InitFiles
    /\ scheme_listbox = <<>>
    /\ sel = 0
    /\ fertilizer_listbox = <<>>
    /\ dlg = NoDialog
    /\ saves = 0
    /\ failures = 0
    /\ shared = {}
    /\ last = NoLast
    /\ ec = NoEc
    /\ csvfile = [exists |-> FALSE, rows |-> <<>>]
    /\ plant_data = <<>>
    /\ gui = NoGui

\* initialize_config_and_exit_on_error, followed on success by the
\* update_main_ui_for_active_scheme call of the start-up code.
initialize_config_and_exit_on_error ==
    /\ phase = "start"
    /\ LET loaded == load_fertilizer_config(file) IN
       IF ~loaded.ok
       THEN /\ phase' = "exited"
            /\ last' = [op |-> "load", result |-> "load_failed",
                        target |-> NoName, before |-> NoName]
            /\ UNCHANGED <<ALL_SCHEMES, schemeOrder, ACTIVE_SCHEME_NAME,
                           DEFAULT_EC_FACTORS, F_DATA, EC_TARGET_VALUES>>
       ELSE /\ ALL_SCHEMES' = loaded.schemes
            /\ schemeOrder' = loaded.order
            /\ ACTIVE_SCHEME_NAME' = loaded.active
            /\ DEFAULT_EC_FACTORS' = loaded.defaults
            /\ IF loaded.active \notin DOMAIN loaded.schemes
               THEN /\ phase' = "exited"
                    /\ last' = [op |-> "load", result |-> "unknown_active",
                                target |-> loaded.active, before |-> NoName]
                    /\ UNCHANGED <<F_DATA, EC_TARGET_VALUES>>
               ELSE /\ phase' = "running"
                    /\ last' = NoLast
                    /\ F_DATA' = Alias(loaded.active)
                    /\ EC_TARGET_VALUES' =
                           loaded.schemes[loaded.active].ec_values
    /\ shared' = {}
    /\ UNCHANGED <<ui, file, scheme_listbox, sel, fertilizer_listbox, dlg,
                   saves, failures, ec, plantVars>>

\* The application is closed and started again.
Restart ==
    /\ phase = "running" /\ ui = "main" /\ last = NoLast
    /\ phase' = "start"
    /\ ALL_SCHEMES' = <<>>
    /\ schemeOrder' = <<>>
    /\ ACTIVE_SCHEME_NAME' = NoName
    /\ DEFAULT_EC_FACTORS' = <<>>
    /\ F_DATA' = Detached(<<>>)
    /\ EC_TARGET_VALUES' = <<>>
    /\ last' = NoLast
    /\ shared' = {}
    /\ UNCHANGED <<ui, file, scheme_listbox, sel, fertilizer_listbox, dlg,
                   saves, failures, ec, plantVars>>

\* Results a handler reports in a message box (or, for KeyError, a
\* traceback); the other results are silent returns.
Reported ==
    {"ok", "persist_fail", "already_active", "DuplicateName",
     "LastSchemeError", "KeyError", "IndexError", "NotFound", "no_selection",
     "no_fertilizer_selection", "empty_name", "bad_ec_factor",
     "MalformedScheduleText"}

\* A handler has run and left the state r.
Step(op, r) ==
    /\ last = NoLast
    /\ saves' = saves + (IF r.result \in {"ok", "persist_fail"} THEN 1 ELSE 0)
    /\ saves' <= MaxSaves
    /\ failures' = failures + (IF r.result = "persist_fail" THEN 1 ELSE 0)
    /\ failures' <= MaxFailures
    /\ ALL_SCHEMES' = r.schemes
    /\ schemeOrder' = r.order
    /\ ACTIVE_SCHEME_NAME' = r.active
    /\ F_DATA' = r.fdata
    /\ EC_TARGET_VALUES' = r.ec
    /\ file' = r.file
    /\ scheme_listbox' = r.lb
    /\ sel' = r.sel
    /\ fertilizer_listbox' = r.flb
    /\ ui' = r.ui
    /\ dlg' = r.dlg
    /\ shared' = r.shared
    /\ last' = IF r.result \in Reported
               THEN [op |-> op, result |-> r.result, target |-> r.target,
                     before |-> ACTIVE_SCHEME_NAME]
               ELSE NoLast
    /\ UNCHANGED <<phase, DEFAULT_EC_FACTORS, ec, plantVars>>

\* The user closes the message box of the last operation.
Acknowledge ==
    /\ phase = "running"
    /\ last # NoLast
    /\ last' = NoLast
    /\ UNCHANGED <<phase, ui, ALL_SCHEMES, schemeOrder, ACTIVE_SCHEME_NAME,
                   DEFAULT_EC_FACTORS, F_DATA, EC_TARGET_VALUES, file,
                   scheme_listbox, sel, fertilizer_listbox, dlg, saves,
                   failures, shared, ec, plantVars>>

InManager == phase = "running" /\ ui = "manager"
FertSelections == 0..Len(fertilizer_listbox)

\* open_scheme_manager_window: a new listbox, filled by populate_scheme_listbox.
OpenManager ==
    /\ phase = "running" /\ ui = "main"
    /\ Step("open_manager",
            Res(populate_scheme_listbox(
                    [Cur EXCEPT !.ui = "manager", !.lb = <<>>, !.sel = 0]),
                "", NoName))

\* The "Schließen" button of the manager.
CloseManager ==
    /\ InManager
    /\ Step("close_manager",
            Res([Cur EXCEPT !.ui = "main", !.lb = <<>>, !.sel = 0,
                            !.flb = <<>>], "", NoName))

\* The user clicks an item of the scheme listbox (on_scheme_select).
SelectScheme ==
    /\ InManager
    /\ \E i \in 1..Len(scheme_listbox) :
          /\ i # sel
          /\ Step("select",
                  Res(refresh_fertilizer_list_for_selected_scheme(
                          [Cur EXCEPT !.sel = i]), "", NoName))

SetActive ==
    /\ InManager
    /\ \E oc \in SaveOutcomes : Step("set_active", set_active_scheme(Cur, oc))

Create ==
    /\ InManager
    /\ \E n \in SchemeNames \cup {NoName}, oc \in SaveOutcomes :
          Step("create", create_new_scheme(Cur, n, oc))

Delete ==
    /\ InManager
    /\ \E confirmed \in BOOLEAN, oc \in SaveOutcomes :
          Step("delete", delete_selected_scheme(Cur, confirmed, oc))

Rename ==
    /\ InManager
    /\ \E n \in SchemeNames \cup {NoName}, oc \in SaveOutcomes :
          Step("rename", rename_selected_scheme(Cur, n, oc))

OpenAddDialog ==
    /\ InManager
    /\ Step("open_dialog", call_add_fertilizer_dialog(Cur))

OpenEditDialog ==
    /\ InManager
    /\ \E fsel \in FertSelections :
          Step("open_dialog", call_edit_fertilizer_dialog(Cur, fsel))

\* The "Speichern" button of the fertilizer dialog.
UpsertFertilizer ==
    /\ phase = "running" /\ ui = "dialog"
    /\ \E in \in DialogInputs, oc \in SaveOutcomes :
          Step("upsert_fertilizer", on_save(Cur, in[1], in[2], in[3], oc))

\* The "Abbrechen" button of the fertilizer dialog.
CancelDialog ==
    /\ phase = "running" /\ ui = "dialog"
    /\ Step("cancel_dialog",
            Res([Cur EXCEPT !.ui = "manager", !.dlg = NoDialog], "", NoName))

DeleteFertilizer ==
    /\ InManager
    /\ \E fsel \in FertSelections, confirmed \in BOOLEAN,
          oc \in SaveOutcomes :
          Step("delete_fertilizer",
               delete_selected_fertilizer(Cur, fsel, confirmed, oc))

Next ==
    \/ initialize_config_and_exit_on_error
    \/ Restart
    \/ Acknowledge
    \/ OpenManager
    \/ CloseManager
    \/ SelectScheme
    \/ SetActive
    \/ Create
    \/ Delete
    \/ Rename
    \/ OpenAddDialog
    \/ OpenEditDialog
    \/ UpsertFertilizer
    \/ CancelDialog
    \/ DeleteFertilizer

Spec == Init /\ [][Next]_vars

\* ------------------------------------------- the EC helper on its own
\* The main window is up with one scheme whose fertilizers have the EC
\* factors below; the EC helper is used, and the function it calls is
\* applied to numbers.
EcFactors == {-1, 0, 2, 478}
EcLevels == {0, 400, 1000, 1200}
EcWaters == {1, 2, 5}
IstTexts == {"", "abc", "-1", "0", "400", "1200"}
WaterTexts == {"", "0", "5"}
SollTexts == {"", "0", "1000", "1200"}
PlanEcTexts == {NoPlanEc, "1200"}

EcFertilizer(factor) ==
    [schedule |-> <<>>, ec_contribution_factor |-> factor]
EcFertData ==
    {<<>>} \cup {"f" :> EcFertilizer(a) @@ "g" :> EcFertilizer(b) :
                    a \in EcFactors, b \in EcFactors}

InitEc ==
    /\ phase = "running"
    /\ ui = "main"
    /\ \E fd \in EcFertData :
          ALL_SCHEMES = "A" :> [fertilizer_data |-> fd, ec_values |-> <<>>]
    /\ schemeOrder = <<"A">>
    /\ ACTIVE_SCHEME_NAME = "A"
    /\ DEFAULT_EC_FACTORS = ("bloom" :> 5 @@ "growth" :> 3)
    /\ F_DATA = Alias("A")
    /\ EC_TARGET_VALUES = <<>>
    /\ file = EncodeConfig(ALL_SCHEMES, schemeOrder, ACTIVE_SCHEME_NAME,
                           DEFAULT_EC_FACTORS)
    /\ scheme_listbox = <<>>
    /\ sel = 0
    /\ fertilizer_listbox = <<>>
    /\ dlg = NoDialog
    /\ saves = 0
    /\ failures = 0
    /\ shared = {}
    /\ last = NoLast
    /\ ec = NoEc
    /\ csvfile = [exists |-> FALSE, rows |-> <<>>]
    /\ plant_data = <<>>
    /\ gui = NoGui

EcFrame ==
    UNCHANGED <<phase, ui, ALL_SCHEMES, schemeOrder, ACTIVE_SCHEME_NAME,
                DEFAULT_EC_FACTORS, F_DATA, EC_TARGET_VALUES, file,
                scheme_listbox, sel, fertilizer_listbox, dlg, saves,
                failures, shared, last, plantVars>>

\* berechne_menge_fuer_ec_anpassung applied to numbers.
RequiredMl ==
    /\ \E ist \in EcLevels, soll \in EcLevels, water \in EcWaters,
          factor \in EcFactors :
          LET r == berechne_menge_fuer_ec_anpassung(ist, soll, water, factor)
          IN ec' = [NoEc EXCEPT !.call = "function", !.ist = ist,
                                !.soll = soll, !.water = water,
                                !.factor = factor,
                                !.out = [kind |-> "float", msg |-> "",
                                         v |-> r.v, divided |-> r.divided,
                                         stamped |-> FALSE]]
    /\ EcFrame

\* The names the combobox of the EC helper offers: the keys of F_DATA, the
\* first one preselected; nothing when there is none.
ComboChoices(fdata) == IF fdata = <<>> THEN {NoName} ELSE DOMAIN fdata

\* The "Berechnen" button of the EC helper.
EcHelper ==
    /\ phase = "running" /\ ui = "main"
    /\ LET fdata == Deref(F_DATA, ALL_SCHEMES) IN
       \E ist_str \in IstTexts, water_str \in WaterTexts,
          manuell \in BOOLEAN, fert \in ComboChoices(fdata) :
          \E soll_str \in (IF manuell THEN SollTexts ELSE PlanEcTexts) :
             ec' = [NoEc EXCEPT !.call = "helper", !.ist_str = ist_str,
                                !.water_str = water_str,
                                !.manuell = manuell, !.soll_str = soll_str,
                                !.fert = fert,
                                !.out = duenger_berechnen(
                                            fdata, ist_str, water_str,
                                            manuell, soll_str, fert)]
    /\ EcFrame

NextEc == RequiredMl \/ EcHelper

SpecEc == InitEc /\ [][NextEc]_vars

\* ------------------------------------------- plants and doses (main window)
\* date.toordinal(): the days from 1.1.0001, that day being 1.
DaysInMonth(y, m) ==
    IF m = 2
    THEN (IF (y % 4 = 0 /\ y % 100 # 0) \/ y % 400 = 0 THEN 29 ELSE 28)
    ELSE IF m \in {4, 6, 9, 11} THEN 30 ELSE 31
RECURSIVE DaysBeforeMonth(_, _)
DaysBeforeMonth(y, m) ==
    IF m = 1 THEN 0 ELSE DaysBeforeMonth(y, m - 1) + DaysInMonth(y, m - 1)
toordinal(date) ==
    LET y1 == date[3] - 1 IN
    y1 * 365 + (y1 \div 4) - (y1 \div 100) + (y1 \div 400)
        + DaysBeforeMonth(date[3], date[2]) + date[1]

\* datetime.today() on the days the model looks at; the time of day does
\* not change (today - germination_date).days, a germination date being a
\* midnight.
Todays == {<<14, 11, 2023>>, <<8, 2, 2024>>}
delta_days(today, germination_date) ==
    toordinal(today) - toordinal(germination_date)

current_week_from_zero(delta) ==
    IF delta \div 7 < 1 THEN 1 ELSE delta \div 7

current_week(delta) ==
    IF (delta \div 7) + 1 < 1 THEN 1 ELSE (delta \div 7) + 1

\* int(week_str): the texts of IntRange and of the weeks update_week writes.
WeekInts ==
    IntRange \cup {current_week(delta_days(t, d)) :
                      t \in Todays, d \in PlantDates}
IsWeekStr(s) == \E k \in WeekInts : ToString(k) = s
WeekOfStr(s) == CHOOSE k \in WeekInts : ToString(k) = s

ClearLabels(g) ==
    [g EXCEPT !.result_labels = [i \in DOMAIN g.result_labels |-> EmptyLabel],
              !.calls = {}]

water_amount_unchecked(g) ==
    [ok |-> g.water_amount_entry = "" \/ IsFloatStr(g.water_amount_entry),
     positive |-> TRUE,
     v |-> IF IsFloatStr(g.water_amount_entry)
           THEN FloatOfStr(g.water_amount_entry) ELSE 0]

\* The water amount calculate() reads: float(text), 0.0 for no text; ok is
\* FALSE when float() raises ValueError.
water_amount(g) ==
    [ok |-> g.water_amount_entry = "" \/ IsFloatStr(g.water_amount_entry),
     positive |-> /\ g.water_amount_entry # ""
                  /\ IsFloatStr(g.water_amount_entry)
                  /\ FloatOfStr(g.water_amount_entry) > 0,
     v |-> IF IsFloatStr(g.water_amount_entry)
           THEN FloatOfStr(g.water_amount_entry) ELSE 0]

\* calculate(fertilizer_type, var); fertilizer_type is NoName for None.
calculate(g, fdata, fertilizer_type) ==
    IF g.week_entry = "" \/ ~IsWeekStr(g.week_entry) THEN ClearLabels(g)
    ELSE LET water == water_amount(g) IN
    IF ~water.ok \/ ~water.positive THEN ClearLabels(g)
    ELSE LET week == WeekOfStr(g.week_entry)
             turn(i) == fertilizer_type = NoName
                        \/ g.fertilizer_options[i] = fertilizer_type
         IN [g EXCEPT
               !.result_labels =
                   [i \in DOMAIN g.result_labels |->
                       IF ~turn(i) THEN g.result_labels[i]
                       ELSE IF g.fertilizer_vars[i] = 1
                       THEN LET result ==
                                    calculate_fertilizer_amount(
                                        fdata, week, water.v,
                                        g.fertilizer_options[i])
                            IN IF result.kind = "None"
                               THEN [kind |-> "Fehler", v |-> 0]
                               ELSE [kind |-> "ml", v |-> result.v]
                       ELSE EmptyLabel],
               !.calls =
                   {[week |-> week, water_amount |-> water.v,
                     fertilizer_type |-> g.fertilizer_options[i]] :
                       i \in {j \in DOMAIN g.fertilizer_options :
                                 turn(j) /\ g.fertilizer_vars[j] = 1}}]

update_ec_value(g, ecv) ==
    IF g.week_entry = "" \/ ~IsWeekStr(g.week_entry)
    THEN [g EXCEPT !.ec_label = "-"]
    ELSE LET ec_value_ms == get_ec_value(ecv, WeekOfStr(g.week_entry)) IN
         [g EXCEPT !.ec_label = IF ec_value_ms.kind = "None" THEN "-"
                                ELSE ToString(ec_value_ms.v * 1000)]

PlantOf(data, name) ==
    data[CHOOSE i \in 1..Len(data) : data[i].name = name]

\* update_week(): the fields of the chosen plant, then calculate() and
\* update_ec_value().
update_week(g, data, fdata, ecv, today) ==
    IF g.plant_var = NoName \/ g.plant_var \notin PlantNames(data)
    THEN [ClearLabels(g) EXCEPT !.week_entry = "", !.ec_label = "-"]
    ELSE LET germination_date == PlantOf(data, g.plant_var).Keimdatum
             week == current_week(delta_days(today, germination_date))
             g1 == [g EXCEPT !.week_entry = ToString(week), !.today = today]
         IN update_ec_value(calculate(g1, fdata, NoName), ecv)

\* The widgets update_main_ui_for_active_scheme builds for the keys of F_DATA.
BuiltGui(fdata) ==
    LET fertilizer_options == Sorted(DOMAIN fdata, FertOrder) IN
    [NoGui EXCEPT
        !.fertilizer_options = fertilizer_options,
        !.fertilizer_vars = [i \in DOMAIN fertilizer_options |-> 0],
        !.result_labels = [i \in DOMAIN fertilizer_options |-> EmptyLabel]]

PlantFiles ==
    {[exists |-> FALSE, rows |-> <<>>]} \cup
    {Csv(rows) : rows \in
    { \* legacy file
      <<CSV_HEADER, <<"P", "1.2.2024", "G", "note">>,
        <<"Q", "15.11.2023", "H", "">>>>,
      \* rows of one name: a malformed date first, then two that parse;
      \* a row with two fields
      <<CSV_HEADER, <<"P", "abc", "G1", "n1">>,
        <<"P", "01.02.2024", "G2", "n2">>,
        <<"P", "15.11.2023", "G3", "n3">>, <<"Q", "x">>>>,
      \* a file with a fifth column
      <<CSV_HEADER \o <<"Bluetedatum">>,
        <<"P", "01.02.2024", "G", "n", "01.03.2024">>>>,
      \* a year before 1000
      <<CSV_HEADER, <<"P", "01.01.0999", "G", "n">>>>,
      \* no header
      <<>> }}

InitPlant ==
    /\ phase = "running"
    /\ ui = "main"
    /\ ALL_SCHEMES =
           "A" :> [fertilizer_data |->
                       ("f" :> [schedule |-> FullSchedule,
                                ec_contribution_factor |-> 5]
                        @@ "g" :> [schedule |-> <<>>,
                                   ec_contribution_factor |-> 0]),
                   ec_values |-> (1 :> 1 @@ 2 :> 2)]
    /\ schemeOrder = <<"A">>
    /\ ACTIVE_SCHEME_NAME = "A"
    /\ DEFAULT_EC_FACTORS = ("bloom" :> 5 @@ "growth" :> 3)
    /\ F_DATA = Alias("A")
    /\ EC_TARGET_VALUES = (1 :> 1 @@ 2 :> 2)
    /\ file = EncodeConfig(ALL_SCHEMES, schemeOrder, ACTIVE_SCHEME_NAME,
                           DEFAULT_EC_FACTORS)
    /\ scheme_listbox = <<>>
    /\ sel = 0
    /\ fertilizer_listbox = <<>>
    /\ dlg = NoDialog
    /\ saves = 0
    /\ failures = 0
    /\ shared = {}
    /\ last = NoLast
    /\ ec = NoEc
    /\ csvfile \in PlantFiles
    /\ plant_data = <<>>
    /\ gui = BuiltGui(ALL_SCHEMES["A"].fertilizer_data)

PlantFrame ==
    UNCHANGED <<phase, ui, ALL_SCHEMES, schemeOrder, ACTIVE_SCHEME_NAME,
                DEFAULT_EC_FACTORS, F_DATA, EC_TARGET_VALUES, file,
                scheme_listbox, sel, fertilizer_listbox, dlg, saves,
                failures, shared, ec>>

\* Start of the application, from reading the plant file on.
LoadPlants ==
    /\ \E today \in Todays :
          LET read == read_plant_data(csvfile)
              first == IF read.plant_data = <<>> THEN NoName
                       ELSE read.plant_data[1].name
              fdata == Deref(F_DATA, ALL_SCHEMES)
          IN /\ plant_data' = read.plant_data
             /\ csvfile' = read.csvfile
             /\ gui' = update_week([BuiltGui(fdata) EXCEPT !.plant_var = first],
                                   read.plant_data, fdata, EC_TARGET_VALUES,
                                   today)
    /\ last' = [NoLast EXCEPT !.op = "read_plant_data"]
    /\ PlantFrame

\* A plant is chosen in the dropdown.
SelectPlant ==
    /\ \E name \in PlantNames(plant_data), today \in Todays :
          gui' = update_week([gui EXCEPT !.plant_var = name], plant_data,
                             Deref(F_DATA, ALL_SCHEMES), EC_TARGET_VALUES,
                             today)
    /\ UNCHANGED <<csvfile, plant_data>>
    /\ last' = [NoLast EXCEPT !.op = "update_week"]
    /\ PlantFrame

\* save_info(): the "Infos speichern" button.
save_info ==
    /\ gui.plant_var # NoName /\ gui.plant_var \in PlantNames(plant_data)
    /\ \E new_info \in {"new"}, outcome \in {"ok", "IOError"},
          pad_year \in BOOLEAN :
          /\ plant_data' =
                 SetPlant(plant_data,
                          [PlantOf(plant_data, gui.plant_var)
                              EXCEPT !.Infos = new_info])
          /\ csvfile' = save_plant_data_to_csv(plant_data', outcome,
                                               pad_year, csvfile)
    /\ UNCHANGED gui
    /\ last' = [NoLast EXCEPT !.op = "save_info"]
    /\ PlantFrame

\* pflanze_speichern(): the save button of the "new plant" dialog.  With an
\* error in the entries the handler returns and only the dialog shows it.
pflanze_speichern ==
    /\ \E neues_keimdatum_str \in {"15.11.2023", "abc"}, now \in Todays,
          outcome \in {"ok", "IOError"}, pad_year \in BOOLEAN :
          LET neuer_pflanzenname == "P"
              errors ==
                  \/ neuer_pflanzenname \in PlantNames(plant_data)
                  \/ ~IsDateText(neues_keimdatum_str)
                  \/ toordinal(strptime(neues_keimdatum_str)) > toordinal(now)
          IN /\ ~errors
             /\ plant_data' =
                    SetPlant(plant_data,
                             [name |-> neuer_pflanzenname,
                              Keimdatum |-> strptime(neues_keimdatum_str),
                              Genetik |-> "G", Infos |-> ""])
             /\ csvfile' = save_plant_data_to_csv(plant_data', outcome,
                                                  pad_year, csvfile)
             /\ gui' = update_week(
                           [gui EXCEPT !.plant_var = neuer_pflanzenname],
                           plant_data', Deref(F_DATA, ALL_SCHEMES),
                           EC_TARGET_VALUES, now)
    /\ last' = [NoLast EXCEPT !.op = "pflanze_speichern"]
    /\ PlantFrame

\* Return in the week or the water entry.
EnterPressed ==
    /\ \E week_str \in {"", "abc", gui.week_entry},
          water_str \in {"", "0", "-1", "2", "abc"} :
          gui' = calculate([gui EXCEPT !.week_entry = week_str,
                                       !.water_amount_entry = water_str],
                           Deref(F_DATA, ALL_SCHEMES), NoName)
    /\ UNCHANGED <<csvfile, plant_data>>
    /\ last' = [NoLast EXCEPT !.op = "calculate"]
    /\ PlantFrame

\* A fertilizer checkbox is clicked.
CheckboxClicked ==
    /\ \E i \in DOMAIN gui.fertilizer_options :
          gui' = calculate([gui EXCEPT !.fertilizer_vars[i] = 1 - @],
                           Deref(F_DATA, ALL_SCHEMES),
                           gui.fertilizer_options[i])
    /\ UNCHANGED <<csvfile, plant_data>>
    /\ last' = [NoLast EXCEPT !.op = "calculate"]
    /\ PlantFrame

NextPlant ==
    \/ LoadPlants \/ SelectPlant \/ save_info \/ pflanze_speichern
    \/ EnterPressed \/ CheckboxClicked

SpecPlant == InitPlant /\ [][NextPlant]_vars

\* ================================================================ claims
Running == phase = "running"
SchemeOps == {"create", "rename", "delete"}
FertilizerOps == {"upsert_fertilizer", "delete_fertilizer"}

\* C1: while the application runs, active_scheme_name is a key of schemes,
\* and a configuration file whose active name is not a key of its schemes
\* never gets the application running.
C1_ActiveIsAScheme ==
    /\ [](Running => ACTIVE_SCHEME_NAME \in DOMAIN ALL_SCHEMES)
    /\ [][(/\ phase = "start"
           /\ file.kind = "json"
           /\ file.active \notin DOMAIN file.schemes) => phase' # "running"]_vars

\* The active scheme was deleted and the deletion was saved.
C1_Witness ==
    /\ Running
    /\ last.op = "delete" /\ last.result = "ok"
    /\ last.target = last.before

\* C2: a persistence failure during create, rename or delete of a scheme
\* leaves schemes and active_scheme_name as they were before the call.
C2_SchemeOpRollback ==
    [][(last'.op \in SchemeOps /\ last'.result = "persist_fail")
          => (ALL_SCHEMES' = ALL_SCHEMES
              /\ ACTIVE_SCHEME_NAME' = ACTIVE_SCHEME_NAME)]_vars

\* Deleting the active scheme failed to persist.
C2_Witness ==
    /\ last.op = "delete" /\ last.result = "persist_fail"
    /\ last.target = last.before
    /\ Cardinality(DOMAIN ALL_SCHEMES) >= 2

\* C3: a persistence failure during set_active leaves active_scheme_name
\* at the value it had before the call.
C3_SetActiveRollback ==
    [][(last'.op = "set_active" /\ last'.result = "persist_fail")
          => ACTIVE_SCHEME_NAME' = ACTIVE_SCHEME_NAME]_vars

\* C4: a persistence failure during upsert_fertilizer or delete_fertilizer
\* leaves every scheme's fertilizer mapping as it was before the call.
C4_FertilizerOpRollback ==
    [][(last'.op \in FertilizerOps /\ last'.result = "persist_fail")
          => ALL_SCHEMES' = ALL_SCHEMES]_vars

\* C5: while the application runs, the data the lookups use (F_DATA and
\* EC_TARGET_VALUES) are the fertilizers and the EC curve of
\* schemes[active_scheme_name].
C5_ResolverReflectsActive ==
    (Running /\ ACTIVE_SCHEME_NAME \in DOMAIN ALL_SCHEMES) =>
        /\ Deref(F_DATA, ALL_SCHEMES)
               = ALL_SCHEMES[ACTIVE_SCHEME_NAME].fertilizer_data
        /\ EC_TARGET_VALUES = ALL_SCHEMES[ACTIVE_SCHEME_NAME].ec_values

\* C6: the repository always holds at least one scheme, and deleting the
\* selected scheme when it is the only one ends in LastSchemeError with
\* schemes, active_scheme_name and the file unchanged.
C6_LastSchemeKept ==
    /\ [](Running => Cardinality(DOMAIN ALL_SCHEMES) >= 1)
    /\ [][(/\ last'.op = "delete"
           /\ last'.target # NoName
           /\ Cardinality(DOMAIN ALL_SCHEMES) = 1)
          => (/\ last'.result = "LastSchemeError"
              /\ ALL_SCHEMES' = ALL_SCHEMES
              /\ ACTIVE_SCHEME_NAME' = ACTIVE_SCHEME_NAME
              /\ file' = file)]_vars

\* Deleting the only scheme was refused.
C6_Witness ==
    /\ last.op = "delete" /\ last.result = "LastSchemeError"
    /\ DOMAIN ALL_SCHEMES = {last.target}

\* C7: a save attempt leaves the file either as it was or holding a
\* complete configuration that loads.
C7_SaveIsAtomic ==
    [][(last'.result \in {"ok", "persist_fail"})
          => (file' = file \/ load_fertilizer_config(file').ok)]_vars

\* C8: saving the repository and loading what was saved gives back the
\* same schemes, key order, active name and default factors.
C8_SaveLoadRoundTrip ==
    Running =>
        load_fertilizer_config(
            EncodeConfig(ALL_SCHEMES, schemeOrder, ACTIVE_SCHEME_NAME,
                         DEFAULT_EC_FACTORS))
        = [ok |-> TRUE, schemes |-> ALL_SCHEMES, order |-> schemeOrder,
           active |-> ACTIVE_SCHEME_NAME, defaults |-> DEFAULT_EC_FACTORS]

\* A fertilizer with a schedule of several weeks was saved from the dialog,
\* and the file holds what is in memory.
C8_Witness ==
    /\ Running
    /\ last.op = "upsert_fertilizer" /\ last.result = "ok"
    /\ \E fn \in DOMAIN ALL_SCHEMES[last.target].fertilizer_data :
          Cardinality(DOMAIN ALL_SCHEMES[last.target]
                                 .fertilizer_data[fn].schedule) >= 2
    /\ file = EncodeConfig(ALL_SCHEMES, schemeOrder, ACTIVE_SCHEME_NAME,
                           DEFAULT_EC_FACTORS)

\* Clamping of one table: weeks past the largest key resolve like the
\* largest key, weeks below 1 resolve like week 1.
Clamps(resolve(_), table) ==
    \A w \in LookupWeeks :
        /\ w > MaxKey(table) => resolve(w) = resolve(MaxKey(table))
        /\ w < 1 => resolve(w) = resolve(1)

\* C9: for every non-empty schedule and EC curve in the repository and
\* every week, the lookup clamps the week to 1..max_week.
C9_LookupClamps ==
    Running =>
        \A n \in DOMAIN ALL_SCHEMES :
            LET c == ALL_SCHEMES[n] IN
            /\ \A fn \in DOMAIN c.fertilizer_data :
                  c.fertilizer_data[fn].schedule # <<>> =>
                      \A water \in WaterAmounts :
                          Clamps(LAMBDA w : calculate_fertilizer_amount(
                                     c.fertilizer_data, w, water, fn),
                                 c.fertilizer_data[fn].schedule)
            /\ c.ec_values # <<>> =>
                  Clamps(LAMBDA w : get_ec_value(c.ec_values, w), c.ec_values)

HasEmptySchedule(fdata) ==
    \E fn \in DOMAIN fdata : fdata[fn].schedule = <<>>

\* C10 as stated: the lookup for a fertilizer with an empty schedule gives
\* an outcome that differs from a computed dose of zero, and the lookup in
\* an empty EC curve gives None.
C10_EmptyScheduleSignalsNoData ==
    Running =>
        LET fdata == Deref(F_DATA, ALL_SCHEMES) IN
        /\ \A fn \in DOMAIN fdata, w \in LookupWeeks, water \in WaterAmounts :
              fdata[fn].schedule = <<>> =>
                  calculate_fertilizer_amount(fdata, w, water, fn)
                      # FloatResult(0)
        /\ EC_TARGET_VALUES = <<>> =>
              \A w \in LookupWeeks :
                  get_ec_value(EC_TARGET_VALUES, w) = NoneResult

\* C10 amended: the lookup for a fertilizer with an empty schedule gives
\* the dose 0.0, and the lookup in an empty EC curve gives None.
C10_EmptyScheduleGivesZero ==
    Running =>
        LET fdata == Deref(F_DATA, ALL_SCHEMES) IN
        /\ \A fn \in DOMAIN fdata, w \in LookupWeeks, water \in WaterAmounts :
              fdata[fn].schedule = <<>> =>
                  calculate_fertilizer_amount(fdata, w, water, fn)
                      = FloatResult(0)
        /\ EC_TARGET_VALUES = <<>> =>
              \A w \in LookupWeeks :
                  get_ec_value(EC_TARGET_VALUES, w) = NoneResult

\* The active scheme has a fertilizer with an empty schedule and an empty
\* EC curve.
C10_Witness ==
    /\ Running
    /\ HasEmptySchedule(Deref(F_DATA, ALL_SCHEMES))
    /\ EC_TARGET_VALUES = <<>>

\* The week the specification's lookup uses: the week clamped to 1..max_week.
ClampedWeek(w, max_week) ==
    IF w < 1 THEN 1 ELSE IF w > max_week THEN max_week ELSE w

\* C11: the dose lookup gives None for a fertilizer name that is not in the
\* active scheme; for a fertilizer with a non-empty schedule it gives the
\* per-litre dose of the clamped week times the water amount, the dose for
\* 2 litres is twice the dose for 1 litre, and schedule {1:2, 2:2, 3:4}
\* with 2 litres in week 5 gives 8.  The lookup reads nothing but the
\* active fertilizer data, so it is looked at when the main loop starts and
\* whenever a step changes that data.
C11_DoseIsPerLitreTimesWater ==
    [][(/\ Running'
        /\ \/ ~Running
           \/ Deref(F_DATA', ALL_SCHEMES') # Deref(F_DATA, ALL_SCHEMES)) =>
        LET fdata == Deref(F_DATA', ALL_SCHEMES')
            dose(fn, w, water) ==
                calculate_fertilizer_amount(fdata, w, water, fn)
        IN \A fn \in FertNames :
              IF fn \notin DOMAIN fdata
              THEN \A w \in LookupWeeks, water \in WaterAmounts :
                      dose(fn, w, water) = NoneResult
              ELSE LET schedule == fdata[fn].schedule IN
                   schedule # <<>> =>
                      /\ \A w \in LookupWeeks, water \in WaterAmounts :
                            LET cw == ClampedWeek(w, MaxKey(schedule)) IN
                            cw \in DOMAIN schedule =>
                                dose(fn, w, water)
                                    = FloatResult(schedule[cw] * water)
                      /\ \A w \in LookupWeeks :
                            /\ dose(fn, w, 2).kind = "float"
                            /\ dose(fn, w, 2).v = 2 * dose(fn, w, 1).v
                      /\ schedule = FullSchedule =>
                            dose(fn, 5, 2) = FloatResult(8)]_vars

\* The active scheme holds fertilizer f with the schedule {1:2, 2:2, 3:4}
\* and no fertilizer g.
C11_Witness ==
    /\ Running
    /\ LET fdata == Deref(F_DATA, ALL_SCHEMES) IN
       /\ "f" \in DOMAIN fdata
       /\ fdata["f"].schedule = FullSchedule
       /\ "g" \notin DOMAIN fdata

\* The function was applied to numbers / the EC helper was used.
FunctionCall == ec.call = "function"
HelperCall == ec.call = "helper"

\* C12: berechne_menge_fuer_ec_anpassung returns exactly 0.0 whenever the
\* current EC is at or above the target, for every water amount and every
\* EC factor (also factors <= 0), and never returns a negative amount.
C12_NoDoseAtOrAboveTarget ==
    FunctionCall =>
        /\ ec.ist >= ec.soll => ec.out.v = Zero
        /\ RatLeq(Zero, ec.out.v)

\* The function was applied to ec_now = 1200, ec_target = 1000 and a
\* factor that is not positive.
C12_Witness ==
    /\ FunctionCall
    /\ ec.ist = 1200 /\ ec.soll = 1000
    /\ ec.factor <= 0

\* The EC helper got as far as reading the EC factor: the entries are
\* valid, the current EC is below the target, a fertilizer is chosen.
ReadsFactor ==
    /\ HelperCall
    /\ entry_error(ec.ist_str, ec.water_str, ec.manuell, ec.soll_str) = ""
    /\ HelperFloat(ec.ist_str) < HelperFloat(ec.soll_str)
    /\ ec.fert \in DOMAIN Deref(F_DATA, ALL_SCHEMES)

\* C13: with the current EC below the target and an EC factor <= 0, the EC
\* helper shows an input error for the factor and no amount, and the
\* division by the factor is not evaluated.
C13_InvalidFactorIsInputError ==
    /\ (ReadsFactor
        /\ Deref(F_DATA, ALL_SCHEMES)[ec.fert].ec_contribution_factor <= 0)
       => ec.out = Eingabefehler("InvalidEcFactor")
    /\ (FunctionCall /\ ec.ist < ec.soll /\ ec.factor <= 0)
       => ~ec.out.divided

\* The EC helper was used with valid entries, current EC 400 below the
\* target 1200, and a fertilizer whose EC factor is 0.
C13_Witness ==
    /\ ReadsFactor
    /\ ec.ist_str = "400" /\ ec.soll_str = "1200"
    /\ Deref(F_DATA, ALL_SCHEMES)[ec.fert].ec_contribution_factor = 0
    /\ ec.out.kind = "Eingabefehler"

\* C14: with the current EC below the target and a positive EC factor the
\* amount is max(0, (ec_target - ec_now) / ec_factor * water); for 400,
\* 1200, 5 litres and factor 478 it lies in [8.368, 8.369); and for the
\* same factor and water a larger EC gap never gives a smaller amount.
C14_RequiredAmount ==
    (FunctionCall /\ ec.ist < ec.soll /\ ec.factor > 0) =>
        LET expected == Rat((ec.soll - ec.ist) * ec.water, ec.factor) IN
        /\ ec.out.v = (IF RatLeq(expected, Zero) THEN Zero ELSE expected)
        /\ (ec.ist = 400 /\ ec.soll = 1200 /\ ec.water = 5
            /\ ec.factor = 478)
           => /\ RatLeq(Rat(8368, 1000), ec.out.v)
              /\ ~RatLeq(Rat(8369, 1000), ec.out.v)
        /\ \A ist2 \in EcLevels, soll2 \in EcLevels :
              (ist2 < soll2 /\ soll2 - ist2 >= ec.soll - ec.ist)
              => RatLeq(ec.out.v,
                        berechne_menge_fuer_ec_anpassung(
                            ist2, soll2, ec.water, ec.factor).v)

\* The function was applied to 400, 1200, 5 litres and factor 478.
C14_Witness ==
    /\ FunctionCall
    /\ ec.ist = 400 /\ ec.soll = 1200 /\ ec.water = 5 /\ ec.factor = 478
    /\ ec.out.divided

\* Nothing is selected in the scheme listbox and there is no scheme called
\* "Default Scheme": create_new_scheme has no template.
NoTemplate == sel = 0 /\ "Default Scheme" \notin DOMAIN ALL_SCHEMES

\* C15: create with a name that exists ends in DuplicateName with the
\* schemes, the active name and the file unchanged; create without a
\* template adds a scheme with no fertilizers and an empty EC curve and
\* leaves the existing schemes and the active name unchanged.
C15_Create ==
    [][last'.op = "create" =>
          /\ last'.target \in DOMAIN ALL_SCHEMES
                 <=> last'.result = "DuplicateName"
          /\ last'.result = "DuplicateName"
                 => /\ ALL_SCHEMES' = ALL_SCHEMES
                    /\ schemeOrder' = schemeOrder
                    /\ ACTIVE_SCHEME_NAME' = ACTIVE_SCHEME_NAME
                    /\ file' = file
          /\ (last'.result = "ok" /\ NoTemplate)
                 => /\ DOMAIN ALL_SCHEMES'
                           = DOMAIN ALL_SCHEMES \cup {last'.target}
                    /\ ALL_SCHEMES'[last'.target].fertilizer_data = <<>>
                    /\ ALL_SCHEMES'[last'.target].ec_values = <<>>
                    /\ \A n \in DOMAIN ALL_SCHEMES :
                          ALL_SCHEMES'[n] = ALL_SCHEMES[n]
                    /\ ACTIVE_SCHEME_NAME' = ACTIVE_SCHEME_NAME]_vars

\* A scheme was created empty although every other scheme has a
\* fertilizer: it was created without a template.
C15_Witness ==
    /\ last.op = "create" /\ last.result = "ok"
    /\ ALL_SCHEMES[last.target] = EmptyScheme
    /\ \A n \in DOMAIN ALL_SCHEMES \ {last.target} :
          ALL_SCHEMES[n].fertilizer_data # <<>>

\* C16: a scheme created from a template starts equal to the template, and
\* a fertilizer add, edit, rename or delete on one scheme, saved or not,
\* leaves every other scheme as it was.
C16_TemplateCopyIsIndependent ==
    /\ [][(/\ last'.op = "create" /\ last'.result = "ok"
           /\ sel # 0
           /\ scheme_listbox[sel] \in DOMAIN ALL_SCHEMES)
          => ALL_SCHEMES'[last'.target] = ALL_SCHEMES[scheme_listbox[sel]]]_vars
    /\ [][last'.op \in FertilizerOps
          => \A n \in DOMAIN ALL_SCHEMES \ {last'.target} :
                /\ n \in DOMAIN ALL_SCHEMES'
                /\ ALL_SCHEMES'[n] = ALL_SCHEMES[n]]_vars

\* "Default Scheme" was created as a copy of scheme A, and a fertilizer of
\* A was then changed: the two differ.
C16_Witness ==
    /\ last.op = "upsert_fertilizer"
    /\ last.result \in {"ok", "persist_fail"}
    /\ last.target = "A"
    /\ {"A", "Default Scheme"} \subseteq DOMAIN ALL_SCHEMES
    /\ ALL_SCHEMES["Default Scheme"].fertilizer_data # <<>>
    /\ ALL_SCHEMES["Default Scheme"] # ALL_SCHEMES["A"]

\* C17: a rename that ends in DuplicateName changes nothing; a rename that
\* succeeds removes the old key, stores exactly the old content under one
\* key that was not a key before, leaves the other schemes alone, and the
\* active name is the new key if the old key was active and is unchanged
\* otherwise.
C17_Rename ==
    [][last'.op = "rename" =>
          /\ last'.result = "DuplicateName"
                 => /\ ALL_SCHEMES' = ALL_SCHEMES
                    /\ schemeOrder' = schemeOrder
                    /\ ACTIVE_SCHEME_NAME' = ACTIVE_SCHEME_NAME
                    /\ file' = file
          /\ last'.result = "ok"
                 => LET old_name == last'.target IN
                    /\ old_name \in DOMAIN ALL_SCHEMES
                    /\ old_name \notin DOMAIN ALL_SCHEMES'
                    /\ \E new_name \in SchemeNames \ DOMAIN ALL_SCHEMES :
                          /\ DOMAIN ALL_SCHEMES'
                               = (DOMAIN ALL_SCHEMES \ {old_name})
                                     \cup {new_name}
                          /\ ALL_SCHEMES'[new_name] = ALL_SCHEMES[old_name]
                          /\ ACTIVE_SCHEME_NAME'
                               = IF ACTIVE_SCHEME_NAME = old_name
                                 THEN new_name ELSE ACTIVE_SCHEME_NAME
                    /\ \A n \in DOMAIN ALL_SCHEMES \ {old_name} :
                          ALL_SCHEMES'[n] = ALL_SCHEMES[n]]_vars

\* The active scheme, one of two, was renamed.
C17_Witness ==
    /\ last.op = "rename" /\ last.result = "ok"
    /\ last.before = last.target
    /\ last.target \notin DOMAIN ALL_SCHEMES
    /\ ACTIVE_SCHEME_NAME \in DOMAIN ALL_SCHEMES
    /\ Cardinality(DOMAIN ALL_SCHEMES) = 2

\* The states the repository is in after a delete of one of its schemes
\* failed to persist and was rolled back.
AfterRolledBackDelete(st) ==
    {delete_selected_scheme([st EXCEPT !.sel = i], TRUE, "open_failed") :
        i \in 1..Len(st.lb)}
SelectName(st, n) == [st EXCEPT !.sel = IndexOf(st.lb, n)]

\* C18: when the active scheme is deleted, the new active scheme is one of
\* the remaining schemes, it is in the file that is saved, and it is the
\* one the same deletion chooses from a repository with the same schemes
\* and the same active name that an earlier rolled-back delete produced.
C18_ReplacementIsDeterministic ==
    [][(/\ last'.op = "delete" /\ last'.result = "ok"
        /\ last'.target = ACTIVE_SCHEME_NAME)
       => /\ ACTIVE_SCHEME_NAME' \in DOMAIN ALL_SCHEMES'
          /\ file'.active = ACTIVE_SCHEME_NAME'
          /\ \A alt \in AfterRolledBackDelete(Cur) :
                (/\ alt.result = "persist_fail"
                 /\ alt.schemes = ALL_SCHEMES
                 /\ alt.active = ACTIVE_SCHEME_NAME)
                => delete_selected_scheme(SelectName(alt, last'.target),
                                          TRUE, "ok").active
                       = ACTIVE_SCHEME_NAME']_vars

\* The fertilizer dialog is open and its "Speichern" button can be pressed:
\* the states in which UpsertFertilizer can save.
DialogOpen == phase = "running" /\ ui = "dialog" /\ saves < MaxSaves

\* What pressing "Speichern" does for every name, EC factor and schedule text
\* typed and every outcome of the save.
Saves == {[in |-> in, r |-> on_save(Cur, in[1], in[2], in[3], oc)] :
             in \in DialogInputs, oc \in SaveOutcomes}

EntryErrors == {"empty_name", "bad_ec_factor", "MalformedScheduleText"}

\* C19: a save of the fertilizer dialog that renames an existing fertilizer
\* (the name typed differs from the name the dialog was opened for) removes
\* the old entry and inserts the new one, the other fertilizers and their
\* number staying as they were; a save whose entries are well formed fails
\* with DuplicateName exactly when the name typed is the name of another
\* fertilizer of the same scheme, never when it is the name of the fertilizer
\* being edited, and a DuplicateName failure changes neither the schemes nor
\* the file.
C19_RenameAndDuplicate ==
    [](DialogOpen =>
        \A s \in Saves :
            LET old == ALL_SCHEMES[dlg.scheme].fertilizer_data
                new == s.r.schemes[dlg.scheme].fertilizer_data
                name == s.in[1]
            IN
            /\ (/\ s.r.result \in {"ok", "persist_fail"}
                /\ dlg.edit /\ dlg.orig \in DOMAIN old /\ name # dlg.orig)
               => /\ dlg.orig \notin DOMAIN new
                  /\ name \in DOMAIN new
                  /\ Drop(new, name) = Drop(old, dlg.orig)
                  /\ Cardinality(DOMAIN new) = Cardinality(DOMAIN old)
            /\ s.r.result \notin EntryErrors
               => (s.r.result = "DuplicateName"
                     <=> (name \in DOMAIN old /\ name # dlg.orig))
            /\ (dlg.edit /\ name = dlg.orig)
               => s.r.result # "DuplicateName"
            /\ s.r.result = "DuplicateName"
               => /\ s.r.schemes = ALL_SCHEMES
                  /\ s.r.file = file
                  /\ s.r.fdata = F_DATA)

\* The only save so far renamed "f" of scheme "A", which every configuration
\* file with a scheme "A" has, to "g".
C19_Witness ==
    /\ last.op = "upsert_fertilizer" /\ last.result = "ok"
    /\ last.target = "A" /\ saves = 1 /\ failures = 0
    /\ "A" \in DOMAIN ALL_SCHEMES
    /\ DOMAIN ALL_SCHEMES["A"].fertilizer_data = {"g"}

\* The entries of a schedule text, and the three ways an entry is malformed.
Entries(text) == {text[i] : i \in {j \in 1..Len(text) : text[j] # <<"">>}}
MissingColon(part) == Len(part) < 2
NonPositiveWeek(part) ==
    Len(part) >= 2 /\ IsIntStr(part[1]) /\ IntOfStr(part[1]) <= 0
NonNumericDose(part) == Len(part) >= 2 /\ ~IsFloatStr(part[2])
Malformed(text) ==
    \E part \in Entries(text) :
        MissingColon(part) \/ NonPositiveWeek(part) \/ NonNumericDose(part)

\* C20: a save of the fertilizer dialog whose schedule text has a malformed
\* entry (no colon, a week that is not positive, a dose that is not a
\* number) changes neither the schemes nor the file, and is refused as a
\* malformed schedule when name and EC factor are well formed; a schedule
\* that a save stores has a week for every entry of the text; a text with
\* no entry is accepted and stored as the empty schedule.
C20_ScheduleTextAllOrNothing ==
    [](DialogOpen =>
        \A s \in Saves :
            LET new == s.r.schemes[dlg.scheme].fertilizer_data
                name == s.in[1]
                text == s.in[3]
                stored == s.r.result \in {"ok", "persist_fail"}
            IN
            /\ Malformed(text)
               => /\ s.r.schemes = ALL_SCHEMES
                  /\ s.r.file = file
                  /\ s.r.fdata = F_DATA
                  /\ ~stored
                  /\ (name # NoName /\ IsFloatStr(s.in[2]))
                     => s.r.result = "MalformedScheduleText"
            /\ stored
               => /\ name \in DOMAIN new
                  /\ DOMAIN new[name].schedule
                       = {IntOfStr(part[1]) : part \in Entries(text)}
            /\ Entries(text) = {}
               => /\ s.r.result # "MalformedScheduleText"
                  /\ stored => new[name].schedule = <<>>)

\* A schedule text with a malformed entry has just been refused.
C20_Witness ==
    /\ last.op = "upsert_fertilizer"
    /\ last.result = "MalformedScheduleText"
    /\ ui = "dialog"

\* The parts of a configuration file that decide, before any schedule entry
\* is read, whether it loads.
HeadLoads(f) ==
    /\ f.kind = "json"
    /\ f.active # NoName /\ DOMAIN f.schemes # {} /\ f.hasDefaults
    /\ \A k \in DOMAIN f.defaults : FloatRaises(f.defaults[k]) = "no"

\* The week keys of a JSON schedule or curve that parse to a positive
\* integer and have a value that parses to a number.
GoodWeeks(sj) ==
    {IntOfStr(k) : k \in {j \in DOMAIN sj : /\ IsIntStr(j)
                                            /\ IntOfStr(j) >= 1
                                            /\ FloatRaises(sj[j]) = "no"}}

\* C21: loading a configuration file never fails because of a schedule or
\* curve entry; the loaded schedules and curves hold exactly the entries
\* whose week key parses to a positive integer and whose value parses to a
\* number, so none of them has a week key below 1.
C21_LoadDropsBadEntries ==
    [][(phase = "start" /\ HeadLoads(file)) =>
          /\ last'.result # "load_failed"
          /\ \A n \in DOMAIN file.schemes :
                /\ n \in DOMAIN ALL_SCHEMES'
                /\ DOMAIN ALL_SCHEMES'[n].ec_values
                       = GoodWeeks(file.schemes[n].ec_values)
                /\ \A fn \in DOMAIN file.schemes[n].fertilizer_data :
                      DOMAIN ALL_SCHEMES'[n].fertilizer_data[fn].schedule
                          = GoodWeeks(file.schemes[n].fertilizer_data[fn]
                                          .schedule)]_vars

\* ------------------------------------------------------ plant file claims
DataRows(f) == IF f.rows = <<>> THEN <<>> ELSE Tail(f.rows)
RowsNamed(rows, name) ==
    {i \in 1..Len(rows) : Len(rows[i]) >= 1 /\ rows[i][1] = name}
WellFormed(row) == Len(row) = Len(CSV_HEADER) /\ IsDateText(row[2])
First(S) == CHOOSE i \in S : \A j \in S : i <= j
JustRead == last.op = "read_plant_data"

\* C22 as stated: after the plant file is read, the record of every name
\* comes from the first row of the file that carries that name, whatever
\* the rows look like.
C22_FirstRowOfNameWins ==
    JustRead =>
        LET rows == DataRows(csvfile) IN
        \A name \in PlantNames(plant_data) :
            LET row == rows[First(RowsNamed(rows, name))] IN
            /\ WellFormed(row)
            /\ PlantOf(plant_data, name) = PlantItem(row)

\* C22 amended: after the plant file is read, a name has a record exactly
\* when some row with that name has four fields and a date that parses;
\* the record comes from the first such well-formed row, and every later
\* row with that name is skipped.
C22_FirstWellFormedRowWins ==
    JustRead =>
        LET rows == DataRows(csvfile) IN
        \A i \in 1..Len(rows) :
            Len(rows[i]) >= 1 =>
                LET name == rows[i][1]
                    good == {j \in RowsNamed(rows, name) : WellFormed(rows[j])}
                IN IF good = {} THEN name \notin PlantNames(plant_data)
                   ELSE /\ Cardinality({k \in 1..Len(plant_data) :
                                           plant_data[k].name = name}) = 1
                        /\ PlantOf(plant_data, name)
                               = PlantItem(rows[First(good)])
C22_Witness ==
    /\ JustRead
    /\ LET rows == DataRows(csvfile)
           good == {j \in RowsNamed(rows, "P") : WellFormed(rows[j])}
       IN /\ Cardinality(good) >= 2
          /\ First(RowsNamed(rows, "P")) \notin good
    /\ "P" \in PlantNames(plant_data)
    /\ PlantOf(plant_data, "P").Genetik = "G2"

Written == last.op \in {"save_info", "pflanze_speichern"}
FourDigitYears(data) ==
    \A i \in 1..Len(data) :
        data[i].Keimdatum[3] >= 1000 /\ data[i].Keimdatum[3] <= 9999
FLOWERING_HEADER == CSV_HEADER \o <<"Bluetebeginn">>

WeekJustShown ==
    /\ last.op \in {"read_plant_data", "update_week", "pflanze_speichern"}
    /\ gui.plant_var \in PlantNames(plant_data)
ShownElapsedDays ==
    delta_days(gui.today, PlantOf(plant_data, gui.plant_var).Keimdatum)

C25_EffectiveWeekIsAKey ==
    [](DialogOpen =>
        \A s \in Saves :
            s.r.result \in {"ok", "persist_fail"} =>
                LET schedule ==
                        s.r.schemes[dlg.scheme].fertilizer_data[s.in[1]].schedule
                IN DOMAIN schedule # {} =>
                       \A week \in LookupWeeks :
                           effective_week(week, MaxKey(schedule))
                               \in DOMAIN schedule)

Calculated ==
    last.op \in {"calculate", "update_week", "read_plant_data",
                 "pflanze_speichern"}
NoPositiveVolume ==
    \/ gui.water_amount_entry = ""
    \/ /\ IsFloatStr(gui.water_amount_entry)
       /\ FloatOfStr(gui.water_amount_entry) <= 0

\* C26: calculate_fertilizer_amount is never called with a water amount
\* that is zero or negative; when the water entry is empty or holds a
\* number <= 0, the calculation clears every result label and makes no
\* call at all.
C26_NoDoseWithoutPositiveWater ==
    Calculated =>
        /\ \A c \in gui.calls : c.water_amount > 0
        /\ NoPositiveVolume =>
              /\ gui.calls = {}
              /\ \A i \in DOMAIN gui.result_labels :
                    gui.result_labels[i] = EmptyLabel
C26_Witness ==
    /\ last.op = "calculate"
    /\ gui.water_amount_entry \in {"0", "-1"}
    /\ IsWeekStr(gui.week_entry)
    /\ \E i \in DOMAIN gui.fertilizer_vars : gui.fertilizer_vars[i] = 1
    /\ gui.calls = {}

\* ---------------------------------------------------- persistence claims
\* The handlers' state with the repository as the configuration file holds
\* it: what the last successful save, or the load at start, left.
Persisted ==
    LET loaded == load_fertilizer_config(file) IN
    [Cur EXCEPT !.schemes = loaded.schemes,
                !.order = loaded.order,
                !.active = loaded.active,
                !.fdata = Alias(loaded.active),
                !.ec = loaded.schemes[loaded.active].ec_values]

\* Every operation the user can start now, run with a save that completes:
\* mem is its result on the repository in memory, clean its result on the
\* persisted repository.
SaveRuns ==
    IF ui = "manager"
    THEN {[mem |-> set_active_scheme(Cur, "ok"),
           clean |-> set_active_scheme(Persisted, "ok")]}
         \cup {[mem |-> create_new_scheme(Cur, n, "ok"),
                clean |-> create_new_scheme(Persisted, n, "ok")] :
                  n \in SchemeNames}
         \cup {[mem |-> rename_selected_scheme(Cur, n, "ok"),
                clean |-> rename_selected_scheme(Persisted, n, "ok")] :
                  n \in SchemeNames}
         \cup {[mem |-> delete_selected_scheme(Cur, TRUE, "ok"),
                clean |-> delete_selected_scheme(Persisted, TRUE, "ok")]}
         \cup {[mem |-> delete_selected_fertilizer(Cur, fsel, TRUE, "ok"),
                clean |-> delete_selected_fertilizer(Persisted, fsel, TRUE,
                                                     "ok")] :
                  fsel \in FertSelections}
    ELSE IF ui = "dialog"
    THEN {[mem |-> on_save(Cur, in[1], in[2], in[3], "ok"),
           clean |-> on_save(Persisted, in[1], in[2], in[3], "ok")] :
             in \in DialogInputs}
    ELSE {}

\* The content of a configuration file without the order of its keys.
Unordered(f) == [f EXCEPT !.order = <<>>]

\* C27: a successful save writes the persisted repository changed by the
\* saving operation only; nothing a failed operation left in memory gets
\* into the file (the order of the keys in the file is not compared).
C27_FailedChangeNeverSaved ==
    []((/\ Running
        /\ last = NoLast
        /\ saves < MaxSaves
        /\ load_fertilizer_config(file).ok
        /\ load_fertilizer_config(file).active
              \in DOMAIN load_fertilizer_config(file).schemes) =>
           \A run \in SaveRuns :
               run.mem.result = "ok" =>
                   Unordered(run.mem.file) = Unordered(run.clean.file))

\* The names a retry may carry: the model's fertilizer names and one more.
RetryNames == FertNames \cup {"h"}

\* C28: in the fertilizer edit dialog a save pressed again after a save that
\* failed to persist ends as the first attempt with the same entries (run
\* on the repository as it was persisted) would: it is not refused as a
\* duplicate of the name the failed attempt stored, and it does not delete
\* an original name that is gone.
C28_RetryBehavesLikeFirstAttempt ==
    []((/\ Running
        /\ ui = "dialog"
        /\ dlg.edit
        /\ last = NoLast
        /\ load_fertilizer_config(file).ok
        /\ load_fertilizer_config(file).active
              \in DOMAIN load_fertilizer_config(file).schemes
        /\ dlg.scheme \in DOMAIN load_fertilizer_config(file).schemes) =>
           \A new_name \in RetryNames, oc \in SaveOutcomes :
               LET retry == on_save(Cur, new_name, "5", FullText, oc)
                   first == on_save(Persisted, new_name, "5", FullText, oc)
               IN /\ retry.result # "KeyError"
                  /\ retry.result = first.result)

\* ------------------------------------------------------------ frame claims
SchemeLevelOps == SchemeOps \cup {"set_active"}
\* The schemes a scheme operation names: the one selected in the listbox
\* and the name given or reported.
NamedSchemes ==
    {last'.target} \cup (IF sel > 0 THEN {scheme_listbox[sel]} ELSE {})
       \cup (DOMAIN ALL_SCHEMES' \ DOMAIN ALL_SCHEMES)

\* C29: an upsert or delete of a fertilizer in scheme S, successful or not,
\* leaves every other scheme, the EC curve of S, the active scheme name and
\* the default EC factors as they were; set_active, create, rename and
\* delete of a scheme leave the default EC factors and every scheme they
\* do not name as they were.
C29_OperationsKeepTheirFrame ==
    [][(last = NoLast /\ last' # NoLast /\ Running) =>
          /\ DEFAULT_EC_FACTORS' = DEFAULT_EC_FACTORS
          /\ last'.op \in FertilizerOps =>
                /\ ACTIVE_SCHEME_NAME' = ACTIVE_SCHEME_NAME
                /\ DOMAIN ALL_SCHEMES' = DOMAIN ALL_SCHEMES
                /\ \A n \in DOMAIN ALL_SCHEMES :
                      /\ ALL_SCHEMES'[n].ec_values = ALL_SCHEMES[n].ec_values
                      /\ n # last'.target => ALL_SCHEMES'[n] = ALL_SCHEMES[n]
          /\ last'.op \in SchemeLevelOps =>
                \A n \in DOMAIN ALL_SCHEMES \ NamedSchemes :
                    /\ n \in DOMAIN ALL_SCHEMES'
                    /\ ALL_SCHEMES'[n] = ALL_SCHEMES[n]]_vars
\* A fertilizer was stored in one of two schemes that both have content.
C29_Witness ==
    /\ last.op = "upsert_fertilizer" /\ last.result = "ok"
    /\ DOMAIN ALL_SCHEMES = {"A", "B"}
    /\ last.target = "A"
    /\ DOMAIN ALL_SCHEMES["A"].fertilizer_data = {"f", "g"}
    /\ ALL_SCHEMES["A"].ec_values # <<>>

\* ---------------------------------------------------------- listbox claim
Offered(lb) == {lb[i] : i \in 1..Len(lb)}

\* C30: after every step that leaves the scheme manager open, the names in
\* the scheme listbox are exactly the keys of ALL_SCHEMES; set_active,
\* rename and delete therefore act on a current scheme and never end in a
\* KeyError for a name that is gone.
C30_ListboxShowsTheSchemes ==
    [][(Running' /\ ui' = "manager") =>
          /\ Offered(scheme_listbox') = DOMAIN ALL_SCHEMES'
          /\ Len(scheme_listbox') = Cardinality(DOMAIN ALL_SCHEMES')
          /\ (last'.op \in {"set_active", "rename", "delete"}
              /\ last'.target # NoName)
             => /\ last'.result \notin {"KeyError", "IndexError"}
                /\ last'.target \in DOMAIN ALL_SCHEMES]_vars
\* A delete that failed to persist was rolled back and the listbox filled
\* again.
C30_Witness ==
    /\ ui = "manager"
    /\ last.op = "delete" /\ last.result = "persist_fail"
    /\ Offered(scheme_listbox) = DOMAIN ALL_SCHEMES
    /\ last.target \in Offered(scheme_listbox)
    /\ Cardinality(DOMAIN ALL_SCHEMES) >= 2

====
